---- MODULE Spec2Model ----
(***************************************************************************)
(* Model of the LLM code-completion extension:                             *)
(*   - InlineCompletionProvider (request gate, timeout, cancellation)      *)
(*     together with LLMConnector.getCompletion (retry loop);              *)
(*   - ContextAnalyzer.getContext (range selection);                       *)
(*   - PromptBuilder.buildPrompt / truncatePrompt.                         *)
(***************************************************************************)
EXTENDS Integers, Sequences, FiniteSets, TLC

(* ---------------------------------------------------------------------- *)
(* Bounds of the model                                                     *)
(* ---------------------------------------------------------------------- *)
MaxRequests == 2
MaxPrompts == 1
MaxTime == 62000
MaxSmallTicks == 2
StartTime == 1000

(* ---------------------------------------------------------------------- *)
(* Program constants                                                       *)
(* ---------------------------------------------------------------------- *)
REQUEST_DEBOUNCE_TIME == 500
REQUEST_TIMEOUT == 60000
SupersedeDelay == 100
UserPromptLifetime == 5000
MAX_RETRIES == 2
BackoffBase == 1000
BackoffCap == 5000

VARIABLES
    now,                    \* Date.now(), milliseconds
    timers,                 \* armed setTimeout timers
    pendingRequest,         \* InlineCompletionProvider.pendingRequest
    pendingRequestTimeout,  \* handle of the armed timeout timer, 0 = null
    lastRequestTime,        \* InlineCompletionProvider.lastRequestTime
    lastCall,               \* when a request last made its first provider call
    userPrompt,             \* InlineCompletionProvider.userPrompt, 0 = null
    promptsSet,             \* number of setUserPrompt calls so far
    smallTicks,             \* number of short time steps taken so far
    req,                    \* the invocations of provideInlineCompletionItems
    command,                \* the run of triggerCompletionCommand
    document,               \* editor.document: its lines
    languageId,             \* document.languageId
    cursorPosition,         \* editor.selection.active
    contextLineCount,       \* configuration value 'contextLineCount'
    editorConfig,           \* the editor's tabSize and insertSpaces
    throwing,               \* the sub-analysis that throws, or "none"
    contextInfo,            \* the ContextInfo returned by getContext
    languageAnalyzers,      \* ContextAnalyzer.languageAnalyzers
    earlier,                \* the first call of getContext and its result
    cpc,                    \* "input" before getContext ran, "done" after,
                            \* "resolved" after the scope resolver alone,
                            \* "busy" while it runs without end,
                            \* "thrown" when it ended with an exception
    promptInput,            \* what buildPrompt is given
    promptOutput,           \* the text buildPrompt returns
    ppc                     \* "input" before buildPrompt ran, "done" after

promptVars == <<promptInput, promptOutput, ppc>>

ctxVars == <<document, languageId, cursorPosition, contextLineCount,
             editorConfig, throwing, contextInfo, languageAnalyzers,
             earlier, cpc>>

provVars == <<now, timers, pendingRequest, pendingRequestTimeout,
              lastRequestTime, lastCall, userPrompt, promptsSet, smallTicks, req,
              command>>

Requests == DOMAIN req

Min(a, b) == IF a <= b THEN a ELSE b
Max(a, b) == IF a >= b THEN a ELSE b

RECURSIVE Pow2(_)
Pow2(n) == IF n = 0 THEN 1 ELSE 2 * Pow2(n - 1)

(* ---------------------------------------------------------------------- *)
(* Errors raised by the HTTP clients, as far as the connector looks at     *)
(* them: name, isAxiosError, response status (0 = no response), whether    *)
(* the message mentions a timeout, whether the message is the connector's  *)
(* own cancellation message.                                               *)
(* ---------------------------------------------------------------------- *)
Err5xx == [name |-> "Error", isAxiosError |-> TRUE, status |-> 500,
           timeoutMsg |-> FALSE, cancelMsg |-> FALSE]
ErrNet == [name |-> "Error", isAxiosError |-> TRUE, status |-> 0,
           timeoutMsg |-> TRUE, cancelMsg |-> FALSE]
Err4xx == [name |-> "Error", isAxiosError |-> TRUE, status |-> 401,
           timeoutMsg |-> FALSE, cancelMsg |-> FALSE]
ErrAbort == [name |-> "CanceledError", isAxiosError |-> TRUE, status |-> 0,
             timeoutMsg |-> FALSE, cancelMsg |-> FALSE]
ErrCancelled == [name |-> "Error", isAxiosError |-> FALSE, status |-> 0,
                 timeoutMsg |-> FALSE, cancelMsg |-> TRUE]
ErrPlain == [name |-> "Error", isAxiosError |-> FALSE, status |-> 0,
             timeoutMsg |-> FALSE, cancelMsg |-> FALSE]

ProviderErrors == {Err5xx, ErrNet, Err4xx}
Providers == {"openai", "anthropic", "deepseek"}

(* callOpenAI / callAnthropic / callDeepseek, catch block: what the        *)
(* provider call throws to getCompletion for a client error e.             *)
WrapProviderError(provider, e, cancelled) ==
    IF e.name = "AbortError"
       \/ (provider # "openai" /\ e.name = "CanceledError")
       \/ cancelled
    THEN ErrCancelled
    ELSE [name |-> "Error", isAxiosError |-> FALSE, status |-> 0,
          timeoutMsg |-> e.timeoutMsg, cancelMsg |-> FALSE]

(* LLMConnector.shouldRetryError *)
shouldRetryError(e) ==
    \/ /\ e.isAxiosError
       /\ \/ (e.status >= 500 /\ e.status < 600)
          \/ e.status = 0
    \/ e.timeoutMsg

(* getCompletion, catch block: is the caught error a cancellation? *)
ConnectorSeesCancel(e, cancelled) ==
    \/ e.cancelMsg
    \/ e.name = "AbortError"
    \/ e.name = "CanceledError"
    \/ cancelled

(* getCompletion: back-off before retry number n *)
BackoffDelay(n) == Min(BackoffBase * Pow2(n), BackoffCap)

(* ---------------------------------------------------------------------- *)
(* Timers                                                                  *)
(* ---------------------------------------------------------------------- *)
Timer(kind, owner, deadline) ==
    [kind |-> kind, owner |-> owner, deadline |-> deadline]

clearTimeout(tm, handle) ==
    {t \in tm : ~(t.kind = "timeout" /\ t.owner = handle)}

(* One invocation of provideInlineCompletionItems: where it is suspended,  *)
(* its cancellation token, its locals (start, retryCount, attempts) and     *)
(* what it has done so far. prompt is <<>> until buildPrompt has run and    *)
(* then holds the value of userPrompt the prompt was built with; commanded  *)
(* is the number of the text entered in the trigger command that asked for  *)
(* the invocation, 0 for an invocation the editor made on its own.          *)
InitReq ==
    [pc |-> "idle", tok |-> FALSE, result |-> "none", start |-> 0,
     retryCount |-> 0, attempts |-> 0,
     manual |-> FALSE, failed |-> "none", ctxBuilt |-> FALSE,
     prompt |-> <<>>, commanded |-> 0,
     calledCancelled |-> FALSE, cancelInFlight |-> FALSE,
     shown |-> FALSE, timedOut |-> FALSE, refusedBusy |-> FALSE]

(* The provider state one synchronous segment of request r works on. *)
Snapshot(r) ==
    [pendingRequest |-> pendingRequest,
     pendingRequestTimeout |-> pendingRequestTimeout,
     timers |-> timers,
     lastRequestTime |-> lastRequestTime,
     lastCall |-> lastCall,
     rid |-> r,
     q |-> req[r]]

Commit(r, s) ==
    /\ pendingRequest' = s.pendingRequest
    /\ pendingRequestTimeout' = s.pendingRequestTimeout
    /\ timers' = s.timers
    /\ lastRequestTime' = s.lastRequestTime
    /\ lastCall' = s.lastCall
    /\ req' = [req EXCEPT ![r] = s.q]

(* InlineCompletionProvider.resetPendingState *)
resetPendingState(s) ==
    [s EXCEPT !.pendingRequest = FALSE,
              !.timers = clearTimeout(s.timers, s.pendingRequestTimeout),
              !.pendingRequestTimeout = 0]

(* return <res> from provideInlineCompletionItems outside the try block *)
ReturnEarly(s, res) ==
    [s EXCEPT !.q.pc = "done", !.q.result = res, !.q.start = 0,
              !.q.retryCount = 0]

(* return <res> from inside the try block: the finally block runs *)
ReturnFinally(s, res) ==
    resetPendingState(ReturnEarly(s, res))

(* ---------------------------------------------------------------------- *)
(* InlineCompletionProvider.getSuggestions and LLMConnector.getCompletion  *)
(* ---------------------------------------------------------------------- *)

SuggestionsNeverSeesCancel(e, cancelled) == FALSE

(* getSuggestions, catch block: is the caught error a cancellation? *)
SuggestionsSeesCancel(e, cancelled) ==
    \/ e.cancelMsg
    \/ cancelled

(* getSuggestions catch block, then provideInlineCompletionItems after     *)
(* getSuggestions returned []: reset, return null, finally.                *)
SuggestionsCatch(s, e) ==
    IF SuggestionsSeesCancel(e, s.q.tok)
    THEN ReturnFinally(s, "null")
    ELSE ReturnFinally([s EXCEPT !.q.shown = TRUE], "null")

(* getSuggestions after getCompletion returned <text>, then                *)
(* provideInlineCompletionItems after getSuggestions returned.             *)
DiscardLateResult(cancelled) == cancelled

SuggestionsReturn(s, text) ==
    IF DiscardLateResult(s.q.tok)
    THEN ReturnFinally(s, "null")
    ELSE IF text = "blank"
         THEN ReturnFinally(s, "null")
         ELSE ReturnFinally(s, "items")

(* getCompletion, one iteration of the retry loop up to the await of the   *)
(* provider call.                                                          *)
StartAttempt(s, unsupported) ==
    IF s.q.tok
    THEN SuggestionsCatch(s, ErrCancelled)
    ELSE IF unsupported
         THEN SuggestionsCatch(s, ErrPlain)
         ELSE [s EXCEPT !.q.pc = "llm", !.q.attempts = @ + 1,
                        !.lastCall = IF s.q.attempts = 0 THEN s.q.start ELSE @]

RetryWithoutLimit(s, e, t) ==
    IF ConnectorSeesCancel(e, s.q.tok)
    THEN SuggestionsCatch(s, ErrCancelled)
    ELSE IF shouldRetryError(e)
         THEN [s EXCEPT !.q.retryCount = @ + 1,
                        !.q.pc = "backoff",
                        !.timers = @ \cup
                            {Timer("backoff", s.rid,
                                   t + BackoffDelay(s.q.retryCount + 1))}]
         ELSE SuggestionsCatch(s, e)

(* getCompletion, catch block of the retry loop, for the error e thrown by *)
(* the provider call.                                                      *)
ConnectorCatch(s, e, t) ==
    IF ConnectorSeesCancel(e, s.q.tok)
    THEN SuggestionsCatch(s, ErrCancelled)
    ELSE IF shouldRetryError(e) /\ s.q.retryCount < MAX_RETRIES
         THEN [s EXCEPT !.q.retryCount = @ + 1,
                        !.q.pc = "backoff",
                        !.timers = @ \cup
                            {Timer("backoff", s.rid,
                                   t + BackoffDelay(s.q.retryCount + 1))}]
         ELSE SuggestionsCatch(s, e)

(* getCompletion from its entry to the first provider call *)
getCompletion(s, in) ==
    IF in.fault = "noApiKey"
    THEN SuggestionsCatch(s, ErrPlain)
    ELSE StartAttempt([s EXCEPT !.q.retryCount = 0],
                      in.fault = "badProvider")

NoCheckBeforeCall(cancelled) == FALSE

(* The token checks made before the LLM call is issued *)
CancelledBeforeCall(cancelled) == cancelled

(* InlineCompletionProvider.buildPrompt: the user text the prompt ends     *)
(* with is the userPrompt of the moment, the default prompt when it is     *)
(* null; userPrompt is left as it is                                       *)
buildUserText(up) == << up >>

(* getSuggestions from its entry to the await of getCompletion *)
getSuggestions(s, in, up) ==
    IF in.fault = "promptThrows"
    THEN SuggestionsCatch([s EXCEPT !.q.failed = "prompt",
                                   !.q.manual = in.byCommand], ErrPlain)
    ELSE IF CancelledBeforeCall(s.q.tok)
         THEN ReturnFinally([s EXCEPT !.q.prompt = buildUserText(up)], "null")
         ELSE getCompletion([s EXCEPT !.q.prompt = buildUserText(up),
                                      !.q.calledCancelled = s.q.tok], in)

(* ---------------------------------------------------------------------- *)
(* InlineCompletionProvider.provideInlineCompletionItems                   *)
(* ---------------------------------------------------------------------- *)

(* From the configuration check to the await of getSuggestions *)
Proceed(s, in, t, up) ==
    IF ~in.autoSuggest /\ up = 0 /\ ~in.byCommand
    THEN ReturnEarly(s, "null")
    ELSE LET s1 == [s EXCEPT
                      !.timers = @ \cup
                          {Timer("timeout", s.rid, t + REQUEST_TIMEOUT)},
                      !.pendingRequestTimeout = s.rid,
                      !.pendingRequest = TRUE,
                      !.q.start = t]
         IN  IF in.fault = "noEditor"
             THEN ReturnFinally(s1, "null")
             ELSE IF CancelledBeforeCall(s1.q.tok)
             THEN ReturnFinally(s1, "null")
             ELSE IF in.fault = "ctxThrows"
             THEN ReturnFinally([s1 EXCEPT !.q.ctxBuilt = TRUE,
                                           !.q.failed = "context",
                                           !.q.manual = in.byCommand],
                                "null")
             ELSE getSuggestions([s1 EXCEPT !.q.ctxBuilt = TRUE], in, up)

(* From the entry to the first await or return *)
provideInlineCompletionItems(s, in, t, up) ==
    IF t - s.lastRequestTime < REQUEST_DEBOUNCE_TIME
    THEN ReturnEarly(s, "null")
    ELSE LET s1 == [s EXCEPT !.lastRequestTime = t]
         IN  IF s1.pendingRequest
             THEN [s1 EXCEPT
                     !.timers = clearTimeout(@, s1.pendingRequestTimeout)
                                \cup {Timer("delay", s.rid, t + SupersedeDelay)},
                     !.pendingRequestTimeout = 0,
                     !.q.pc = "delay"]
             ELSE Proceed(s1, in, t, up)

(* After await delay(100) *)
AfterDelay(s, in, t, up) ==
    IF s.pendingRequest
    THEN ReturnEarly([s EXCEPT !.q.refusedBusy = TRUE], "null")
    ELSE Proceed(s, in, t, up)

(* What one invocation finds: the token on entry, the trigger kind, the   *)
(* configuration, and which step (if any) fails.                           *)
Faults == {"none", "noEditor", "ctxThrows", "promptThrows", "noApiKey",
           "badProvider"}

Inputs ==
    [cancelled : BOOLEAN, autoSuggest : BOOLEAN, byCommand : BOOLEAN,
     fault : Faults]

(* ---------------------------------------------------------------------- *)
(* Actions                                                                 *)
(* ---------------------------------------------------------------------- *)
Due(kind, owner) ==
    {t \in timers : t.kind = kind /\ t.owner = owner /\ t.deadline <= now}

Invoke(r) ==
    /\ req[r].pc = "idle"
    /\ \A q \in Requests : q < r => req[q].pc # "idle"
    /\ \E in \in Inputs :
         Commit(r, provideInlineCompletionItems(
                      [Snapshot(r) EXCEPT !.q.tok = in.cancelled],
                      in, now, userPrompt))
    /\ UNCHANGED <<now, userPrompt, promptsSet, smallTicks, command>>
    /\ UNCHANGED <<ctxVars, promptVars>>

DelayDone(r) ==
    /\ req[r].pc = "delay"
    /\ \E t \in Due("delay", r) :
         \E in \in Inputs :
           Commit(r, AfterDelay([Snapshot(r) EXCEPT !.timers = @ \ {t}],
                                in, now, userPrompt))
    /\ UNCHANGED <<now, userPrompt, promptsSet, smallTicks, command>>
    /\ UNCHANGED <<ctxVars, promptVars>>

LLMReturn(r) ==
    /\ req[r].pc = "llm"
    /\ \E text \in {"code", "blank"} :
         Commit(r, SuggestionsReturn(Snapshot(r), text))
    /\ UNCHANGED <<now, userPrompt, promptsSet, smallTicks, command>>
    /\ UNCHANGED <<ctxVars, promptVars>>

LLMFail(r) ==
    /\ req[r].pc = "llm"
    /\ \E e \in ProviderErrors \cup (IF req[r].tok THEN {ErrAbort} ELSE {}) :
         \E provider \in Providers :
           Commit(r, ConnectorCatch(Snapshot(r),
                        WrapProviderError(provider, e, req[r].tok), now))
    /\ UNCHANGED <<now, userPrompt, promptsSet, smallTicks, command>>
    /\ UNCHANGED <<ctxVars, promptVars>>

BackoffDone(r) ==
    /\ req[r].pc = "backoff"
    /\ \E t \in Due("backoff", r) :
         Commit(r, StartAttempt([Snapshot(r) EXCEPT !.timers = @ \ {t}],
                                FALSE))
    /\ UNCHANGED <<now, userPrompt, promptsSet, smallTicks, command>>
    /\ UNCHANGED <<ctxVars, promptVars>>

(* The editor cancels the token of a request that is suspended *)
Cancel(r) ==
    /\ req[r].pc \in {"delay", "llm", "backoff"}
    /\ ~req[r].tok
    /\ req' = [req EXCEPT ![r].tok = TRUE,
                          ![r].cancelInFlight = (req[r].pc = "llm")]
    /\ UNCHANGED <<now, timers, pendingRequest, pendingRequestTimeout,
                   lastRequestTime, lastCall, userPrompt, promptsSet, smallTicks,
                   command>>
    /\ UNCHANGED <<ctxVars, promptVars>>

(* The callback of the request-timeout timer *)
TimeoutFire ==
    \E t \in timers :
      /\ t.kind = "timeout"
      /\ t.deadline <= now
      /\ pendingRequest' = FALSE
      /\ pendingRequestTimeout' = 0
      /\ timers' = timers \ {t}
      /\ req' = [req EXCEPT ![t.owner].timedOut = TRUE]
      /\ UNCHANGED <<now, lastRequestTime, lastCall, userPrompt, promptsSet, smallTicks,
                     command>>
      /\ UNCHANGED <<ctxVars, promptVars>>

(* The run of triggerCompletionCommand: where it is (idle, or triggered:   *)
(* the input box has returned a text and the editor's trigger command has  *)
(* been executed), the number of the text entered, and whether the editor  *)
(* has made the invocation of the provider that the trigger asks for.      *)
NoCommand == [pc |-> "idle", asked |-> 0, invoked |-> TRUE]

(* triggerCompletionCommand up to executeCommand(inlineSuggest.trigger),   *)
(* with an editor, a valid configuration and a text entered                *)
triggerCompletionCommand ==
    /\ command.pc = "idle"
    /\ promptsSet < MaxPrompts
    /\ command' = [pc |-> "triggered", asked |-> promptsSet + 1,
                   invoked |-> FALSE]
    /\ UNCHANGED <<now, timers, pendingRequest, pendingRequestTimeout,
                   lastRequestTime, lastCall, userPrompt, promptsSet, smallTicks, req>>
    /\ UNCHANGED <<ctxVars, promptVars>>

(* The editor invokes the provider for the trigger: when, relative to the  *)
(* return of executeCommand, is the editor's choice.                       *)
CommandInvoke(r) ==
    /\ ~command.invoked
    /\ req[r].pc = "idle"
    /\ \A q \in Requests : q < r => req[q].pc # "idle"
    /\ \E in \in Inputs :
         /\ in.byCommand
         /\ Commit(r, provideInlineCompletionItems(
                         [Snapshot(r) EXCEPT !.q.tok = in.cancelled,
                                             !.q.commanded = command.asked],
                         in, now, userPrompt))
    /\ command' = [command EXCEPT !.invoked = TRUE]
    /\ UNCHANGED <<now, userPrompt, promptsSet, smallTicks>>
    /\ UNCHANGED <<ctxVars, promptVars>>

(* InlineCompletionProvider.setUserPrompt, called by the trigger command   *)
(* after executeCommand has returned                                       *)
setUserPrompt ==
    /\ command.pc = "triggered"
    /\ promptsSet < MaxPrompts
    /\ promptsSet' = promptsSet + 1
    /\ userPrompt' = promptsSet + 1
    /\ timers' = timers \cup
                   {Timer("prompt", promptsSet + 1, now + UserPromptLifetime)}
    /\ command' = [command EXCEPT !.pc = "idle"]
    /\ UNCHANGED <<now, pendingRequest, pendingRequestTimeout,
                   lastRequestTime, lastCall, smallTicks, req>>
    /\ UNCHANGED <<ctxVars, promptVars>>

(* The callback of the timer armed by setUserPrompt *)
UserPromptExpire ==
    \E t \in timers :
      /\ t.kind = "prompt"
      /\ t.deadline <= now
      /\ userPrompt' = 0
      /\ timers' = timers \ {t}
      /\ UNCHANGED <<now, pendingRequest, pendingRequestTimeout,
                     lastRequestTime, lastCall, promptsSet, smallTicks, req, command>>
      /\ UNCHANGED <<ctxVars, promptVars>>

(* Time passes, never beyond the deadline of an armed timer: either to the *)
(* next deadline, or by a short step.                                       *)
TimeSteps == {REQUEST_DEBOUNCE_TIME, REQUEST_TIMEOUT}

Advance(d) ==
    /\ d > 0
    /\ now + d <= MaxTime
    /\ \A t \in timers : now + d <= t.deadline
    /\ now' = now + d

TickToDeadline ==
    /\ \E t \in timers : Advance(t.deadline - now)
    /\ UNCHANGED <<timers, pendingRequest, pendingRequestTimeout,
                   lastRequestTime, lastCall, userPrompt, promptsSet, smallTicks, req,
                   command>>
    /\ UNCHANGED <<ctxVars, promptVars>>

Tick ==
    /\ smallTicks < MaxSmallTicks
    /\ \E d \in TimeSteps : Advance(d)
    /\ smallTicks' = smallTicks + 1
    /\ UNCHANGED <<timers, pendingRequest, pendingRequestTimeout,
                   lastRequestTime, lastCall, userPrompt, promptsSet, req, command>>
    /\ UNCHANGED <<ctxVars, promptVars>>

(* a short step that ends inside the debounce time of an invocation that   *)
(* waited SupersedeDelay before it went on                                 *)
ShortTick ==
    /\ smallTicks < MaxSmallTicks
    /\ Advance(REQUEST_DEBOUNCE_TIME - SupersedeDelay)
    /\ smallTicks' = smallTicks + 1
    /\ UNCHANGED <<timers, pendingRequest, pendingRequestTimeout,
                   lastRequestTime, lastCall, userPrompt, promptsSet, req, command>>
    /\ UNCHANGED <<ctxVars, promptVars>>

(* ---------------------------------------------------------------------- *)
(* ContextAnalyzer: documents                                              *)
(* ---------------------------------------------------------------------- *)
(* A line of a document is a line kind followed by `pad` characters of a  *)
(* trailing comment (no brace, no arrow, no blank). The kinds stand for:  *)
(*   blank  ''                    ws     '    '                           *)
(*   stmt   'x();'                fn     'function f() {'                 *)
(*   fnsig  'function f()'        open   '{'                              *)
(*   close  '}'                   if     'if (x) {'                       *)
(*   arrow  'const f = () => 1;'  def    'def f():'                       *)
(*   body   '    x = 1'          arrowfn 'const g = () => {'             *)
(*   using  'using Foo;'         import  "import a from 'm';"            *)
(*   api    'lastRequest();'                                             *)
(* braces lists the braces of the text with their index in the line.      *)
LineKind(k) ==
    CASE k = "blank" -> [len |-> 0, indent |-> 0, braces |-> <<>>,
                         isFunction |-> FALSE, isControlFlow |-> FALSE,
                         hasArrow |-> FALSE, isDef |-> FALSE]
      [] k = "ws"    -> [len |-> 4, indent |-> 4, braces |-> <<>>,
                         isFunction |-> FALSE, isControlFlow |-> FALSE,
                         hasArrow |-> FALSE, isDef |-> FALSE]
      [] k = "stmt"  -> [len |-> 4, indent |-> 0, braces |-> <<>>,
                         isFunction |-> FALSE, isControlFlow |-> FALSE,
                         hasArrow |-> FALSE, isDef |-> FALSE]
      [] k = "fn"    -> [len |-> 14, indent |-> 0,
                         braces |-> << [at |-> 13, open |-> TRUE] >>,
                         isFunction |-> TRUE, isControlFlow |-> FALSE,
                         hasArrow |-> FALSE, isDef |-> FALSE]
      [] k = "fnsig" -> [len |-> 12, indent |-> 0, braces |-> <<>>,
                         isFunction |-> TRUE, isControlFlow |-> FALSE,
                         hasArrow |-> FALSE, isDef |-> FALSE]
      [] k = "open"  -> [len |-> 1, indent |-> 0,
                         braces |-> << [at |-> 0, open |-> TRUE] >>,
                         isFunction |-> FALSE, isControlFlow |-> FALSE,
                         hasArrow |-> FALSE, isDef |-> FALSE]
      [] k = "close" -> [len |-> 1, indent |-> 0,
                         braces |-> << [at |-> 0, open |-> FALSE] >>,
                         isFunction |-> FALSE, isControlFlow |-> FALSE,
                         hasArrow |-> FALSE, isDef |-> FALSE]
      [] k = "if"    -> [len |-> 8, indent |-> 0,
                         braces |-> << [at |-> 7, open |-> TRUE] >>,
                         isFunction |-> TRUE, isControlFlow |-> TRUE,
                         hasArrow |-> FALSE, isDef |-> FALSE]
      [] k = "arrow" -> [len |-> 18, indent |-> 0, braces |-> <<>>,
                         isFunction |-> TRUE, isControlFlow |-> FALSE,
                         hasArrow |-> TRUE, isDef |-> FALSE]
      [] k = "def"   -> [len |-> 8, indent |-> 0, braces |-> <<>>,
                         isFunction |-> FALSE, isControlFlow |-> FALSE,
                         hasArrow |-> FALSE, isDef |-> TRUE]
      [] k = "body"  -> [len |-> 9, indent |-> 4, braces |-> <<>>,
                         isFunction |-> FALSE, isControlFlow |-> FALSE,
                         hasArrow |-> FALSE, isDef |-> FALSE]
      [] k = "arrowfn" -> [len |-> 17, indent |-> 0,
                         braces |-> << [at |-> 16, open |-> TRUE] >>,
                         isFunction |-> TRUE, isControlFlow |-> FALSE,
                         hasArrow |-> TRUE, isDef |-> FALSE]
      [] k = "using" -> [len |-> 10, indent |-> 0, braces |-> <<>>,
                         isFunction |-> FALSE, isControlFlow |-> FALSE,
                         hasArrow |-> FALSE, isDef |-> FALSE]
      [] k = "import" -> [len |-> 18, indent |-> 0, braces |-> <<>>,
                         isFunction |-> FALSE, isControlFlow |-> FALSE,
                         hasArrow |-> FALSE, isDef |-> FALSE]
      [] k = "api"   -> [len |-> 14, indent |-> 0, braces |-> <<>>,
                         isFunction |-> FALSE, isControlFlow |-> FALSE,
                         hasArrow |-> FALSE, isDef |-> FALSE]

Line(kind, pad) == [kind |-> kind, pad |-> pad]

(* TextLine.text.length *)
LineLength(l) == LineKind(l.kind).len + l.pad

(* lineText.trim() === '' *)
IsBlankLine(l) == l.kind \in {"blank", "ws"} /\ l.pad = 0

(* TextDocument.lineAt(n), lines counted from 0 *)
lineAt(doc, n) == doc[n + 1]

Position(line, character) == [line |-> line, character |-> character]

(* The offset of the first character of line n; for n = lineCount it is   *)
(* one past the end of the text.                                           *)
RECURSIVE LineStart(_, _)
LineStart(doc, n) ==
    IF n = 0 THEN 0
    ELSE LineStart(doc, n - 1) + LineLength(lineAt(doc, n - 1)) + 1

(* document.getText().length *)
TextLength(doc) == LineStart(doc, Len(doc)) - 1

(* TextDocument.offsetAt *)
offsetAt(doc, p) == LineStart(doc, p.line) + p.character

(* TextDocument.positionAt *)
PositionOnLine(doc, off, n) == Position(n, off - LineStart(doc, n))

positionAt(doc, off) ==
    PositionOnLine(doc, off,
        CHOOSE i \in 0..(Len(doc) - 1) :
            /\ LineStart(doc, i) <= off
            /\ off < LineStart(doc, i + 1))

(* A text taken from the document: the characters from..to-1 of the       *)
(* document followed by nl line feeds that are not in the document.       *)
Text(from, to, nl) == [from |-> from, to |-> to, nl |-> nl]

EmptyText == Text(0, 0, 0)

TextLen(t) == t.to - t.from + t.nl

(* TextDocument.getText(new Range(a, b)); a Range orders its two ends *)
getText(doc, a, b) ==
    LET oa == offsetAt(doc, a)
        ob == offsetAt(doc, b)
    IN  IF oa = ob THEN EmptyText ELSE Text(Min(oa, ob), Max(oa, ob), 0)

(* the loops `for (i = a; i <= b; i++) code += lineAt(i).text + '\n'` *)
LinesText(doc, a, b) ==
    IF a > b THEN EmptyText
    ELSE Text(LineStart(doc, a), Min(LineStart(doc, b + 1), TextLength(doc)),
              IF b = Len(doc) - 1 THEN 1 ELSE 0)

(* code.trim() === '' for a text built by LinesText(doc, a, b) *)
LinesBlank(doc, a, b) == \A i \in a..b : IsBlankLine(lineAt(doc, i))

Range(start, end) == [ok |-> TRUE, start |-> start, end |-> end]

NullRange == [ok |-> FALSE, start |-> Position(0, 0), end |-> Position(0, 0)]

(* ---------------------------------------------------------------------- *)
(* ContextAnalyzer: the scope resolver                                     *)
(* ---------------------------------------------------------------------- *)
MaxLookupLinesJs == 50
MaxLookupLinesPython == 30
BraceLookahead == 5
ArrowLookahead == 3
BraceLanguages ==
    {"javascript", "typescript", "javascriptreact", "typescriptreact"}

(* lineText.indexOf('{'), -1 when the line has no opening brace *)
FirstOpenBrace(b) ==
    IF \A i \in 1..Len(b) : ~b[i].open THEN -1
    ELSE b[CHOOSE i \in 1..Len(b) :
               b[i].open /\ \A j \in 1..(i - 1) : ~b[j].open].at

IndexOfOpenBrace(l) == FirstOpenBrace(LineKind(l.kind).braces)

(* lineText.includes('=>') && !lineText.includes('{') *)
IsBlocklessArrow(l) == LineKind(l.kind).hasArrow /\ IndexOfOpenBrace(l) < 0

(* the braces of the text from line n on, with their offsets, in order *)
RECURSIVE BracesFrom(_, _)
BracesFrom(doc, n) ==
    IF n >= Len(doc) THEN <<>>
    ELSE LET b == LineKind(lineAt(doc, n).kind).braces
         IN  [i \in 1..Len(b) |->
                 [at |-> LineStart(doc, n) + b[i].at, open |-> b[i].open]]
             \o BracesFrom(doc, n + 1)

(* the loop that looks for the closing brace: -1 when there is none *)
RECURSIVE ScanBraces(_, _, _)
ScanBraces(ev, i, braceLevel) ==
    IF i > Len(ev) THEN -1
    ELSE IF ev[i].open THEN ScanBraces(ev, i + 1, braceLevel + 1)
    ELSE IF braceLevel = 1 THEN ev[i].at
    ELSE ScanBraces(ev, i + 1, braceLevel - 1)

(* the offset of the opening brace: on the line, or on one of the next   *)
(* BraceLookahead lines; -1 when there is none. (The arrow case of that   *)
(* loop finds a brace only on a line where indexOf('{') already did.)     *)
RECURSIVE OpenBraceBelow(_, _, _)
OpenBraceBelow(doc, line, i) ==
    IF i > BraceLookahead \/ line + i >= Len(doc) THEN -1
    ELSE IF IndexOfOpenBrace(lineAt(doc, line + i)) >= 0
         THEN LineStart(doc, line + i) + IndexOfOpenBrace(lineAt(doc, line + i))
    ELSE OpenBraceBelow(doc, line, i + 1)

OpenBracePos(doc, line) ==
    IF IndexOfOpenBrace(lineAt(doc, line)) >= 0
    THEN LineStart(doc, line) + IndexOfOpenBrace(lineAt(doc, line))
    ELSE OpenBraceBelow(doc, line, 1)

RECURSIVE ArrowBelow(_, _, _)
ArrowBelow(doc, line, i) ==
    IF i > ArrowLookahead \/ line + i >= Len(doc) THEN NullRange
    ELSE IF IsBlocklessArrow(lineAt(doc, line + i))
         THEN Range(Position(line, 0),
                    Position(line + i, LineLength(lineAt(doc, line + i))))
    ELSE ArrowBelow(doc, line, i + 1)

(* the range that ends after the closing brace at endPos *)
RangeToBrace(doc, line, endPos) ==
    IF endPos < 0 THEN NullRange
    ELSE Range(Position(line, 0), positionAt(doc, endPos + 1))

(* the range of the definition whose opening brace is at openBracePos *)
RangeFromBrace(doc, line, openBracePos) ==
    IF openBracePos < 0
    THEN IF IsBlocklessArrow(lineAt(doc, line))
         THEN Range(Position(line, 0),
                    Position(line, LineLength(lineAt(doc, line))))
         ELSE ArrowBelow(doc, line, 1)
    ELSE RangeToBrace(doc, line,
             ScanBraces(SelectSeq(BracesFrom(doc, 0),
                                  LAMBDA e : e.at > openBracePos), 1, 1))

getFunctionRangeByLine(doc, line) ==
    RangeFromBrace(doc, line, OpenBracePos(doc, line))

AcceptsEveryRange(position, range) == TRUE

positionInRange(position, range) ==
    /\ ~(position.line < range.start.line \/ position.line > range.end.line)
    /\ ~(/\ position.line = range.start.line
         /\ position.character < range.start.character)
    /\ ~(/\ position.line = range.end.line
         /\ position.character > range.end.character)

(* a line that matches one of functionPatterns, control flow or not *)
MatchesFunctionPattern(l) == LineKind(l.kind).isFunction

(* a line recorded in functionLines: not a control-flow statement, and a  *)
(* function definition                                                     *)
IsFunctionLine(l) ==
    ~LineKind(l.kind).isControlFlow /\ LineKind(l.kind).isFunction

(* the recorded lines in ascending order: the first whose range holds the *)
(* position                                                                *)
RECURSIVE FirstEnclosing(_, _, _)
EnclosingOrLater(doc, position, n, range) ==
    IF /\ IsFunctionLine(lineAt(doc, n))
       /\ range.ok
       /\ positionInRange(position, range)
    THEN range
    ELSE FirstEnclosing(doc, position, n + 1)

FirstEnclosing(doc, position, n) ==
    IF n > position.line THEN NullRange
    ELSE EnclosingOrLater(doc, position, n, getFunctionRangeByLine(doc, n))

(* ContextAnalyzer.getIndentationLevel *)
getIndentationLevel(l) == LineKind(l.kind).indent

(* the upward search for a def or class line: -1 when none is found *)
RECURSIVE PythonDefLine(_, _, _)
PythonDefLine(doc, position, i) ==
    IF i >= MaxLookupLinesPython \/ position.line - i < 0 THEN -1
    ELSE LET lineNum == position.line - i
             l == lineAt(doc, lineNum)
             indent == getIndentationLevel(l)
             currentIndent == getIndentationLevel(lineAt(doc, position.line))
         IN  IF IsBlankLine(l) THEN PythonDefLine(doc, position, i + 1)
             ELSE IF /\ (indent < currentIndent \/ lineNum = position.line)
                     /\ LineKind(l.kind).isDef
                  THEN lineNum
             ELSE IF indent < currentIndent /\ i > 0 THEN -1
             ELSE PythonDefLine(doc, position, i + 1)

(* the downward search for the last line of the definition *)
RECURSIVE PythonEndLine(_, _, _)
PythonEndLine(doc, defIndent, line) ==
    IF line >= Len(doc) THEN Len(doc) - 1
    ELSE IF IsBlankLine(lineAt(doc, line))
         THEN PythonEndLine(doc, defIndent, line + 1)
    ELSE IF getIndentationLevel(lineAt(doc, line)) <= defIndent THEN line - 1
    ELSE PythonEndLine(doc, defIndent, line + 1)

PythonRangeTo(doc, defLine, endLine) ==
    Range(Position(defLine, 0),
          Position(endLine, LineLength(lineAt(doc, endLine))))

(* the range of the definition that starts on defLine *)
PythonRange(doc, defLine) ==
    IF defLine < 0 THEN NullRange
    ELSE PythonRangeTo(doc, defLine,
             PythonEndLine(doc, getIndentationLevel(lineAt(doc, defLine)),
                           defLine + 1))

InnermostFunctionRange(doc, lang, position) ==
    IF lang \in BraceLanguages
    THEN LET enclosing ==
                 {n \in 0..position.line :
                     /\ IsFunctionLine(lineAt(doc, n))
                     /\ getFunctionRangeByLine(doc, n).ok
                     /\ positionInRange(position,
                                        getFunctionRangeByLine(doc, n))}
         IN  IF enclosing = {} THEN NullRange
             ELSE getFunctionRangeByLine(doc,
                      CHOOSE n \in enclosing : \A m \in enclosing : m <= n)
    ELSE IF lang = "python"
    THEN PythonRange(doc, PythonDefLine(doc, position, 0))
    ELSE NullRange

getCurrentFunctionOrClassRange(doc, lang, position) ==
    IF lang \in BraceLanguages
    THEN FirstEnclosing(doc, position,
                        Max(0, position.line - (MaxLookupLinesJs - 1)))
    ELSE IF lang = "python"
    THEN PythonRange(doc, PythonDefLine(doc, position, 0))
    ELSE NullRange

(* ---------------------------------------------------------------------- *)
(* The parts of lines a text holds                                         *)
(* ---------------------------------------------------------------------- *)
(* The cursor cuts its line at column 0, at column CutColumn, at the end  *)
(* of the line or inside the trailing comment, so a text taken from the   *)
(* document holds of a line the whole statement ("whole"), its first      *)
(* CutColumn characters ("head"), the rest of it ("tail"), or characters  *)
(* of the trailing comment only ("pad"). The trailing comment is a run of *)
(* '/' and matches none of the patterns.                                   *)
CutColumn == 2

PartOf(l, a, b) ==
    LET len == LineKind(l.kind).len
    IN  CASE a = 0 /\ b >= len -> "whole"
          [] a = 0 /\ b = CutColumn /\ b < len -> "head"
          [] a = CutColumn /\ a < len /\ b >= len -> "tail"
          [] a >= len /\ a > 0 -> "pad"

(* the part of line n between its columns a and b, if there is one *)
PieceOfLine(doc, t, n, a, b) ==
    IF a < b
    THEN << [line |-> n, kind |-> lineAt(doc, n).kind,
             part |-> PartOf(lineAt(doc, n), a, b),
             at |-> LineStart(doc, n) + a - t.from] >>
    ELSE <<>>

(* the parts of the lines of the document that text t holds, in order *)
RECURSIVE PiecesFrom(_, _, _)
PiecesFrom(doc, t, n) ==
    IF n >= Len(doc) THEN <<>>
    ELSE PieceOfLine(doc, t, n,
             Max(0, t.from - LineStart(doc, n)),
             Min(LineLength(lineAt(doc, n)), t.to - LineStart(doc, n)))
         \o PiecesFrom(doc, t, n + 1)

Pieces(doc, t) == PiecesFrom(doc, t, 0)

(* ---------------------------------------------------------------------- *)
(* The description of the current scope                                    *)
(* ---------------------------------------------------------------------- *)
(* '全局作用域', '函数 <name> 内', '代码块 <name> 内', and '' before any   *)
(* analysis. None of the line kinds declares a class.                      *)
GlobalScope == [type |-> "global", name |-> ""]

NoScope == [type |-> "none", name |-> ""]

FunctionScope(name) == [type |-> "function", name |-> name]

BlockScope(name) == [type |-> "block", name |-> name]

(* TypeScriptAnalyzer.analyzeCurrentScope: the matches of functionPatterns *)
(* that start on a line of kind k: the pattern (1 to 5), the column of     *)
(* match.index and the name. The opening brace the match ends with is the  *)
(* first one at or after the line.                                         *)
TsFunctionPatterns(k) ==
    CASE k = "fn"      -> << [p |-> 1, at |-> 0, name |-> "f"] >>
      [] k = "fnsig"   -> << [p |-> 1, at |-> 0, name |-> "f"] >>
      [] k = "arrowfn" -> << [p |-> 3, at |-> 0, name |-> "g"],
                             [p |-> 4, at |-> 6, name |-> "g"] >>
      [] OTHER         -> <<>>

(* the first line from n on that is not blank, if it is '{'; else -1 *)
RECURSIVE NextOpenLine(_, _)
NextOpenLine(doc, n) ==
    IF n >= Len(doc) THEN -1
    ELSE IF lineAt(doc, n).kind = "open" THEN n
    ELSE IF IsBlankLine(lineAt(doc, n)) THEN NextOpenLine(doc, n + 1)
    ELSE -1

(* the line with the brace that ends the match starting on line n: the    *)
(* line itself, or, after 'function f()', the next line that is not blank *)
(* if it is '{'; -1 when the pattern does not match                        *)
TsBraceLine(doc, n) ==
    IF lineAt(doc, n).kind \in {"fn", "arrowfn"} THEN n
    ELSE IF lineAt(doc, n).kind = "fnsig" /\ lineAt(doc, n).pad = 0
         THEN NextOpenLine(doc, n + 1)
    ELSE -1

(* the matches of pattern p, in the order regex.exec finds them *)
(* the closing brace that matches the opening brace at offset brace *)
TsClosingBrace(doc, brace) ==
    ScanBraces(SelectSeq(BracesFrom(doc, 0), LAMBDA e : e.at > brace), 1, 1)

(* a function from start to its closing brace; without one it is empty *)
TsFunctionUpTo(start, name, close) ==
    [start |-> start, end |-> IF close < 0 THEN start ELSE close,
     name |-> name]

(* the match of a pattern on line n, whose brace is on braceLine *)
TsMatchOn(doc, n, here, braceLine) ==
    IF here # <<>> /\ braceLine >= 0
    THEN << TsFunctionUpTo(LineStart(doc, n) + here[1].at, here[1].name,
                TsClosingBrace(doc,
                    LineStart(doc, braceLine)
                      + IndexOfOpenBrace(lineAt(doc, braceLine)))) >>
    ELSE <<>>

RECURSIVE TsMatches(_, _, _)
TsMatches(doc, p, n) ==
    IF n >= Len(doc) THEN <<>>
    ELSE TsMatchOn(doc, n,
             SelectSeq(TsFunctionPatterns(lineAt(doc, n).kind),
                       LAMBDA m : m.p = p),
             TsBraceLine(doc, n))
         \o TsMatches(doc, p, n + 1)

TsPatternCount == 5

(* pattern after pattern, match after match: the last match whose braces  *)
(* hold the offset gives currentFunction                                   *)
(* every match that holds the offset overwrites currentFunction *)
LastNameOr(holding, current) ==
    IF holding = <<>> THEN current ELSE holding[Len(holding)].name

RECURSIVE TsCurrentFunction(_, _, _, _)
TsCurrentFunction(doc, offset, p, current) ==
    IF p > TsPatternCount THEN current
    ELSE TsCurrentFunction(doc, offset, p + 1,
             LastNameOr(SelectSeq(TsMatches(doc, p, 0),
                            LAMBDA m : offset > m.start /\ offset < m.end),
                        current))

ScopeOfFunction(currentFunction) ==
    IF currentFunction # "" THEN FunctionScope(currentFunction)
    ELSE GlobalScope

TsAnalyzeCurrentScope(doc, position) ==
    ScopeOfFunction(TsCurrentFunction(doc, offsetAt(doc, position), 1, ""))

(* PythonAnalyzer.analyzeCurrentScope: the name after def of the first     *)
(* line above the cursor that is indented less than the cursor's line      *)
RECURSIVE PyFunctionName(_, _, _)
PyFunctionName(doc, currentIndent, line) ==
    IF line < 0 THEN ""
    ELSE LET l == lineAt(doc, line)
         IN  IF getIndentationLevel(l) < currentIndent
             THEN IF LineKind(l.kind).isDef THEN "f"
                  ELSE IF getIndentationLevel(l) = 0 THEN ""
                  ELSE PyFunctionName(doc, currentIndent, line - 1)
             ELSE PyFunctionName(doc, currentIndent, line - 1)

PyAnalyzeCurrentScope(doc, position) ==
    LET functionName ==
            PyFunctionName(doc,
                getIndentationLevel(lineAt(doc, position.line)),
                position.line - 1)
    IN  IF functionName # "" THEN FunctionScope(functionName)
        ELSE GlobalScope

(* GenericAnalyzer.analyzeCurrentScope, what it finds on a line of kind k: *)
(* a function definition, the start of another block (a line with '{' and  *)
(* without '}', named by the word before the brace or its parentheses),    *)
(* or nothing                                                              *)
GenericBlockOf(k) ==
    CASE k \in {"fn", "fnsig"} -> [found |-> TRUE, scope |-> FunctionScope("f")]
      [] k = "if"              -> [found |-> TRUE, scope |-> BlockScope("if")]
      [] k \in {"arrowfn", "open"} -> [found |-> TRUE, scope |-> GlobalScope]
      [] OTHER                 -> [found |-> FALSE, scope |-> GlobalScope]

GenericLookupLines == 20

RECURSIVE GenericScopeFrom(_, _, _)
GenericScopeFrom(doc, i, last) ==
    IF i < last THEN GlobalScope
    ELSE IF GenericBlockOf(lineAt(doc, i).kind).found
         THEN GenericBlockOf(lineAt(doc, i).kind).scope
    ELSE GenericScopeFrom(doc, i - 1, last)

GenericAnalyzeCurrentScope(doc, position) ==
    GenericScopeFrom(doc, position.line,
                     Max(0, position.line - GenericLookupLines))

(* The languages of the documents. Java, with its JavaAnalyzer, is not     *)
(* among them.                                                             *)
AllLanguages == BraceLanguages \cup {"python", "plaintext"}

(* the empty Map: no language has an analyzer yet *)
NoAnalyzers == [l \in AllLanguages |-> "none"]

(* ContextAnalyzer.getLanguageAnalyzer, the switch that creates one *)
NewAnalyzer(lang) ==
    IF lang \in BraceLanguages THEN "TypeScriptAnalyzer"
    ELSE IF lang = "python" THEN "PythonAnalyzer"
    ELSE "GenericAnalyzer"

GenericAnalyzerOnHit(cache, lang) ==
    IF cache[lang] # "none" THEN "GenericAnalyzer" ELSE NewAnalyzer(lang)

(* ContextAnalyzer.getLanguageAnalyzer: the cached analyzer of the         *)
(* language, a new one when there is none                                  *)
getLanguageAnalyzer(cache, lang) ==
    IF cache[lang] # "none" THEN cache[lang] ELSE NewAnalyzer(lang)

(* the Map after getLanguageAnalyzer(lang) *)
AnalyzerCached(cache, lang) ==
    [cache EXCEPT ![lang] = getLanguageAnalyzer(cache, lang)]

(* analyzer.analyzeCurrentScope(document, position) *)
ScopeBy(analyzer, doc, position) ==
    IF analyzer = "TypeScriptAnalyzer"
    THEN TsAnalyzeCurrentScope(doc, position)
    ELSE IF analyzer = "PythonAnalyzer"
    THEN PyAnalyzeCurrentScope(doc, position)
    ELSE GenericAnalyzeCurrentScope(doc, position)

(* the analyzeCurrentScope of the analyzer that getLanguageAnalyzer        *)
(* returns for the language                                                *)
AnalyzerScope(doc, lang, position) ==
    ScopeBy(getLanguageAnalyzer(languageAnalyzers, lang), doc, position)

(* ContextAnalyzer.analyzeCurrentScopeEnhanced: one of scopePatterns       *)
(* matches in this part of a line                                          *)
MatchesScopePattern(piece) ==
    piece.part = "whole" /\ piece.kind \in {"fn", "fnsig", "arrow", "arrowfn"}

(* The patterns have no g flag, so pattern.exec returns the first match    *)
(* again and again: with a match in beforeCode the loop `while ((match =   *)
(* pattern.exec(beforeCode)) !== null)` never ends.                        *)
ScopeLoopNeverEnds(doc, beforeCode) ==
    \E i \in 1..Len(Pieces(doc, beforeCode)) :
        MatchesScopePattern(Pieces(doc, beforeCode)[i])

(* without a match the scope chain is empty *)
analyzeCurrentScopeEnhanced(doc, beforeCode) == GlobalScope

(* the second attempt of performEnhancedAnalysis for brace languages *)
NeedsEnhanced(lang, scope) == lang \in BraceLanguages /\ scope = GlobalScope

NeedsEnhancedScope(doc, lang, position) ==
    NeedsEnhanced(lang, AnalyzerScope(doc, lang, position))

EnhancedWhenNeeded(lang, scope, enhanced) ==
    IF NeedsEnhanced(lang, scope) THEN enhanced ELSE scope

CurrentScope(doc, lang, position, beforeCode) ==
    EnhancedWhenNeeded(lang, AnalyzerScope(doc, lang, position),
                       analyzeCurrentScopeEnhanced(doc, beforeCode))

(* ---------------------------------------------------------------------- *)
(* The code structure                                                      *)
(* ---------------------------------------------------------------------- *)
RECURSIVE Flatten(_)
Flatten(ss) == IF ss = <<>> THEN <<>> ELSE Head(ss) \o Flatten(Tail(ss))

(* beforeCode + "\n" + afterCode as parts of lines: the two texts meet at  *)
(* the cursor, where the line feed is put in                               *)
ShiftedBy(pieces, n) ==
    [i \in 1..Len(pieces) |-> [pieces[i] EXCEPT !.at = @ + n]]

FullCodePieces(doc, beforeCode, afterCode) ==
    Pieces(doc, beforeCode)
      \o ShiftedBy(Pieces(doc, afterCode), TextLen(beforeCode) + 1)

(* document.getText() as parts of lines *)
DocumentPieces(doc) == Pieces(doc, Text(0, TextLength(doc), 0))

(* a match of pattern number p of a list, at column at of a part of a line *)
Match(p, at, type, name) == [p |-> p, at |-> at, type |-> type, name |-> name]

(* white space only, which \s* passes over *)
WhiteSpaceOnly(doc, piece) ==
    /\ piece.kind = "ws"
    /\ \/ piece.part = "head"
       \/ piece.part \in {"whole", "tail"} /\ lineAt(doc, piece.line).pad = 0

(* a part that ends with ')' and is followed, white space and line feeds   *)
(* apart, by a line '{'                                                    *)
RECURSIVE FollowedByOpen(_, _, _)
FollowedByOpen(doc, ps, i) ==
    IF i >= Len(ps) THEN FALSE
    ELSE IF WhiteSpaceOnly(doc, ps[i + 1]) THEN FollowedByOpen(doc, ps, i + 1)
    ELSE ps[i + 1].kind = "open" /\ ps[i + 1].part = "whole"

SignatureBeforeOpen(doc, ps, i) ==
    /\ ps[i].kind = "fnsig"
    /\ ps[i].part \in {"whole", "tail"}
    /\ lineAt(doc, ps[i].line).pad = 0
    /\ FollowedByOpen(doc, ps, i)

(* the patterns of analyzeJSCodeStructure, numbered as listed: each needs  *)
(* its keyword whole, so a line cut by the cursor matches none             *)
JsStructurePatternCount == 15

JsStructureMatches(doc, lang, ps, i) ==
    IF ps[i].part # "whole" THEN <<>>
    ELSE CASE ps[i].kind \in {"fn", "fnsig"} ->
                  << Match(1, 0, "function", "f") >>
           [] ps[i].kind = "arrow" -> << Match(4, 0, "arrow-function", "f") >>
           [] ps[i].kind = "arrowfn" -> << Match(4, 0, "arrow-function", "g") >>
           [] ps[i].kind = "import" -> << Match(12, 0, "import", "a") >>
           [] OTHER -> <<>>

(* GenericAnalyzer.analyzeCodeStructure: three function patterns and the   *)
(* class pattern                                                           *)
GenericStructurePatternCount == 4

GenericStructureMatches(doc, lang, ps, i) ==
    IF ps[i].part = "whole" /\ ps[i].kind \in {"fn", "fnsig"}
    THEN << Match(1, 0, "function", "f") >>
    ELSE <<>>

(* PythonAnalyzer.analyzeCodeStructure: functionPattern, classPattern and  *)
(* the two import patterns                                                 *)
PythonStructurePatternCount == 4

PythonStructureMatches(doc, lang, ps, i) ==
    IF ps[i].part # "whole" THEN <<>>
    ELSE CASE ps[i].kind = "def" -> << Match(1, 0, "function", "f") >>
           [] ps[i].kind = "import" -> << Match(3, 0, "import", "a") >>
           [] OTHER -> <<>>

(* the patterns of analyzeControlStructures, numbered as listed (those of  *)
(* Java are left out). Pattern 5, /(\w+)\s*\([^)]*\)\s*{/, matches          *)
(* 'f() {' inside a function line and all of 'if (x) {'; \s* passes over   *)
(* the line feed the cursor puts into 'if' | ' (x) {'.                     *)
ControlPatternCount == 26

ControlMatches(doc, lang, ps, i) ==
    LET k == ps[i].kind
        part == ps[i].part
        nameAt == 9
    IN  CASE k = "fn" /\ part = "whole" ->
                 << Match(1, 0, "function", "f"),
                    Match(5, nameAt, "function", "f") >>
          [] k = "fn" /\ part = "tail" ->
                 << Match(5, nameAt - CutColumn, "function", "f") >>
          [] k = "fnsig" /\ part = "whole" /\ SignatureBeforeOpen(doc, ps, i) ->
                 << Match(1, 0, "function", "f"),
                    Match(5, nameAt, "function", "f") >>
          [] k = "fnsig" /\ part = "tail" /\ SignatureBeforeOpen(doc, ps, i) ->
                 << Match(5, nameAt - CutColumn, "function", "f") >>
          [] k = "arrowfn" /\ part = "whole" ->
                 << Match(4, 0, "arrow-function", "g") >>
          [] k = "if" /\ part = "whole" ->
                 << Match(5, 0, "function", "if"),
                    Match(7, 0, "if-statement", "") >>
          [] /\ k = "if" /\ part = "head" /\ i < Len(ps)
             /\ ps[i + 1].line = ps[i].line /\ ps[i + 1].part = "tail" ->
                 << Match(5, 0, "function", "if"),
                    Match(7, 0, "if-statement", "") >>
          [] k = "def" /\ part = "whole" /\ lang = "python" ->
                 << Match(17, 0, "function", "f") >>
          [] OTHER -> <<>>

(* structures.push in the order of the loops: pattern by pattern, and for  *)
(* one pattern in the order of the text                                    *)
Structure(piece, m) ==
    [type |-> m.type, name |-> m.name, position |-> piece.at + m.at]

Located(piece, ms) ==
    [j \in 1..Len(ms) |-> [p |-> ms[j].p, s |-> Structure(piece, ms[j])]]

Collected(inText, count) ==
    LET ofPattern(p) == SelectSeq(inText, LAMBDA e : e.p = p)
        pushed == Flatten([p \in 1..count |-> ofPattern(p)])
    IN  [j \in 1..Len(pushed) |-> pushed[j].s]

(* structures.sort((a, b) => a.position - b.position), a stable sort *)
RECURSIVE InsertByPosition(_, _)
InsertByPosition(e, sorted) ==
    IF sorted = <<>> THEN << e >>
    ELSE IF e.position < Head(sorted).position THEN << e >> \o sorted
    ELSE << Head(sorted) >> \o InsertByPosition(e, Tail(sorted))

RECURSIVE SortedFrom(_, _, _)
SortedFrom(s, i, sorted) ==
    IF i > Len(s) THEN sorted
    ELSE SortedFrom(s, i + 1, InsertByPosition(s[i], sorted))

(* the structures as pushed *)
AsPushed(structures) == structures

SortByPosition(structures) == SortedFrom(structures, 1, <<>>)

(* ContextAnalyzer.analyzeJSCodeStructure *)
JsStructuresIn(doc, lang, ps) ==
    SortByPosition(Collected(
        Flatten([i \in 1..Len(ps) |->
            Located(ps[i], JsStructureMatches(doc, lang, ps, i))]),
        JsStructurePatternCount))

analyzeJSCodeStructure(doc, lang, beforeCode, afterCode) ==
    JsStructuresIn(doc, lang, FullCodePieces(doc, beforeCode, afterCode))

(* ContextAnalyzer.analyzeControlStructures(beforeCode + "\n" + afterCode) *)
ControlStructuresIn(doc, lang, ps) ==
    SortByPosition(Collected(
        Flatten([i \in 1..Len(ps) |->
            Located(ps[i], ControlMatches(doc, lang, ps, i))]),
        ControlPatternCount))

analyzeControlStructures(doc, lang, beforeCode, afterCode) ==
    ControlStructuresIn(doc, lang, FullCodePieces(doc, beforeCode, afterCode))

(* analyzer.analyzeCodeStructure of the Python and the generic analyzer *)
PythonStructuresIn(doc, lang, ps) ==
    SortByPosition(Collected(
        Flatten([i \in 1..Len(ps) |->
            Located(ps[i], PythonStructureMatches(doc, lang, ps, i))]),
        PythonStructurePatternCount))

GenericStructuresIn(doc, lang, ps) ==
    SortByPosition(Collected(
        Flatten([i \in 1..Len(ps) |->
            Located(ps[i], GenericStructureMatches(doc, lang, ps, i))]),
        GenericStructurePatternCount))

(* analyzer.analyzeCodeStructure(document, position); the brace languages *)
(* use analyzeJSCodeStructure and never ask their analyzer for it          *)
AnalyzerStructure(doc, lang) ==
    IF getLanguageAnalyzer(languageAnalyzers, lang) = "PythonAnalyzer"
    THEN PythonStructuresIn(doc, lang, DocumentPieces(doc))
    ELSE GenericStructuresIn(doc, lang, DocumentPieces(doc))

(* result.codeStructure of performEnhancedAnalysis *)
OrWhenEmpty(structures, fallback) ==
    IF Len(structures) = 0 THEN fallback ELSE structures

CodeStructure(doc, lang, beforeCode, afterCode) ==
    OrWhenEmpty(
        IF lang \in BraceLanguages
        THEN analyzeJSCodeStructure(doc, lang, beforeCode, afterCode)
        ELSE AnalyzerStructure(doc, lang),
        analyzeControlStructures(doc, lang, beforeCode, afterCode))

(* ---------------------------------------------------------------------- *)
(* The nearby symbols                                                      *)
(* ---------------------------------------------------------------------- *)
(* ContextAnalyzer.isKeyword: the keyword sets of Python, of javascript    *)
(* and typescript, and of every other language (that of Java is left out)  *)
PythonKeywords ==
    {"if", "elif", "else", "for", "while", "def", "class", "try", "except",
     "finally", "with", "as", "import", "from", "return", "yield", "break",
     "continue", "pass", "True", "False", "None", "and", "or", "not", "is",
     "in", "lambda", "global", "nonlocal", "async", "await", "assert", "del",
     "raise", "self"}

JsKeywords ==
    {"if", "else", "for", "while", "do", "switch", "case", "break",
     "continue", "return", "try", "catch", "finally", "throw", "new",
     "delete", "var", "let", "const", "function", "class", "this", "super",
     "import", "export", "from", "as", "async", "await", "static", "public",
     "private", "protected", "extends", "implements", "interface", "enum",
     "package", "true", "false", "null", "undefined", "void", "typeof",
     "instanceof", "in", "of", "with", "yield"}

DefaultKeywords ==
    {"if", "else", "for", "while", "return", "break", "continue", "class",
     "function", "true", "false", "null"}

KeywordsOf(lang) ==
    CASE lang = "python" -> PythonKeywords
      [] lang \in {"javascript", "typescript"} -> JsKeywords
      [] OTHER -> DefaultKeywords

(* no word is taken for a keyword *)
NeverKeyword(word, lang) == FALSE

isKeyword(word, lang) == word \in KeywordsOf(lang)

(* The words of the line kinds, whole and as the cursor cuts them at       *)
(* CutColumn: symbolRegex /\b[a-zA-Z_]\w*\b/g                              *)
WordsOf(k, part) ==
    CASE part = "pad" -> {}
      [] k = "stmt"    -> IF part = "tail" THEN {} ELSE {"x"}
      [] k \in {"fn", "fnsig"} ->
             (CASE part = "whole" -> {"function", "f"}
               [] part = "head" -> {"fu"}
               [] part = "tail" -> {"nction", "f"})
      [] k = "if"      -> (CASE part = "whole" -> {"if", "x"}
                            [] part = "head" -> {"if"}
                            [] part = "tail" -> {"x"})
      [] k = "arrow"   -> (CASE part = "whole" -> {"const", "f"}
                            [] part = "head" -> {"co"}
                            [] part = "tail" -> {"nst", "f"})
      [] k = "arrowfn" -> (CASE part = "whole" -> {"const", "g"}
                            [] part = "head" -> {"co"}
                            [] part = "tail" -> {"nst", "g"})
      [] k = "def"     -> (CASE part = "whole" -> {"def", "f"}
                            [] part = "head" -> {"de"}
                            [] part = "tail" -> {"f"})
      [] k = "body"    -> IF part = "head" THEN {} ELSE {"x"}
      [] k = "using"   -> (CASE part = "whole" -> {"using", "Foo"}
                            [] part = "head" -> {"us"}
                            [] part = "tail" -> {"ing", "Foo"})
      [] k = "import"  -> (CASE part = "whole" -> {"import", "a", "from", "m"}
                            [] part = "head" -> {"im"}
                            [] part = "tail" -> {"port", "a", "from", "m"})
      [] k = "api"     -> (CASE part = "whole" -> {"lastRequest"}
                            [] part = "head" -> {"la"}
                            [] part = "tail" -> {"stRequest"})
      [] OTHER -> {}

(* methodCallRegex /(\w+)\s*\(/g: the words before an opening parenthesis *)
CallsOf(k, part) ==
    CASE part = "pad" -> {}
      [] k = "stmt" /\ part # "tail" -> {"x"}
      [] k \in {"fn", "fnsig", "def"} /\ part # "head" -> {"f"}
      [] k = "if" /\ part = "whole" -> {"if"}
      [] k = "api" /\ part = "whole" -> {"lastRequest"}
      [] k = "api" /\ part = "tail" -> {"stRequest"}
      [] OTHER -> {}

(* functionDefRegex of the language: javascript and typescript, python *)
FunctionDefsOf(lang, k, part) ==
    CASE part # "whole" -> {}
      [] lang \in {"javascript", "typescript"} /\ k \in {"fn", "fnsig", "arrow"}
             -> {"f"}
      [] lang \in {"javascript", "typescript"} /\ k = "arrowfn" -> {"g"}
      [] lang = "python" /\ k = "def" -> {"f"}
      [] OTHER -> {}

(* paramPatterns: of the line kinds only 'if (x) {' has a parameter list   *)
(* with a name in it, before an opening brace                              *)
ParamsOf(k, part) ==
    IF k = "if" /\ part \in {"whole", "tail"} THEN {"x"} ELSE {}

(* An element of the symbol set: `name`, `name*`, `name()`, `name*()` or   *)
(* `function:name`                                                         *)
Symbol(tag, name, priority, call) ==
    [tag |-> tag, name |-> name, priority |-> priority, call |-> call]

(* the name of a symbol without its markers *)
StripMarkers(symbol) == symbol.name

(* ContextAnalyzer.extractSymbolsFromLine *)
extractSymbolsFromLine(k, part, lang, isPriority) ==
    {Symbol("", w, isPriority, FALSE) :
         w \in {v \in WordsOf(k, part) : ~isKeyword(v, lang)}}
      \cup {Symbol("", w, isPriority, TRUE) :
         w \in {v \in CallsOf(k, part) : ~isKeyword(v, lang)}}
      \cup {Symbol("function:", w, FALSE, FALSE) :
         w \in {v \in FunctionDefsOf(lang, k, part) : ~isKeyword(v, lang)}}
      \cup {Symbol("", w, isPriority, FALSE) :
         w \in {v \in ParamsOf(k, part) : ~isKeyword(v, lang)}}

(* apiPatterns: /lastRequest/ is in the text; the other names are in none  *)
(* of the line kinds                                                       *)
ApiSymbols(ps) ==
    IF \E i \in 1..Len(ps) : ps[i].kind = "api" /\ ps[i].part = "whole"
    THEN {Symbol("", "lastRequest", TRUE, FALSE),
          Symbol("", "lastRequest", TRUE, TRUE)}
    ELSE {}

(* ContextAnalyzer.extractSymbolsFromText: line by line, then the API      *)
(* patterns                                                                *)
SymbolsOfPieces(ps, lang, isPriority) ==
    UNION {extractSymbolsFromLine(ps[i].kind, ps[i].part, lang, isPriority)
              : i \in 1..Len(ps)}
      \cup ApiSymbols(ps)

extractSymbolsFromText(doc, text, lang, isPriority) ==
    SymbolsOfPieces(Pieces(doc, text), lang, isPriority)

(* ContextAnalyzer.analyzeNearbySymbols, as the set of its elements. With  *)
(* both texts empty it reads the lines around the cursor from the document *)
PriorityDistance == 8
NearbyLines == 30

analyzeNearbySymbols(doc, lang, position, range, beforeCode, afterCode) ==
    IF TextLen(beforeCode) > 0 \/ TextLen(afterCode) > 0
    THEN extractSymbolsFromText(doc, beforeCode, lang, TRUE)
           \cup extractSymbolsFromText(doc, afterCode, lang, FALSE)
    ELSE LET near == {n \in 0..(Len(doc) - 1) :
                         /\ n >= position.line - NearbyLines
                         /\ n <= position.line + NearbyLines}
             inRange == IF range.ok
                        THEN {n \in 0..(Len(doc) - 1) :
                                 /\ n >= range.start.line
                                 /\ n <= range.end.line}
                        ELSE {}
             distance(n) == IF n >= position.line THEN n - position.line
                            ELSE position.line - n
         IN  UNION {extractSymbolsFromLine(lineAt(doc, n).kind, "whole",
                                           lang, FALSE) : n \in inRange}
               \cup UNION {extractSymbolsFromLine(lineAt(doc, n).kind, "whole",
                               lang, distance(n) <= PriorityDistance)
                              : n \in near}

(* ---------------------------------------------------------------------- *)
(* The related imports                                                     *)
(* ---------------------------------------------------------------------- *)
(* symbol.replace(/[*()]/g, ''): the markers '*' and '()' go, a leading    *)
(* 'function:' stays                                                       *)
PlainSymbol(symbol) == [tag |-> symbol.tag, name |-> symbol.name]

HasPlainSymbol(symbols, name) ==
    \E s \in symbols : PlainSymbol(s) = [tag |-> "", name |-> name]

(* an import statement as returned, with the names it binds *)
ImportStatement(text, names) == [text |-> text, names |-> names]

(* TypeScriptAnalyzer.analyzeRelatedImports: the default import of         *)
(* "import a from 'm';", if a is among the symbols                         *)
TsRelatedImports(doc, ps, i, symbols) ==
    IF ps[i].kind = "import" /\ HasPlainSymbol(symbols, "a")
    THEN << ImportStatement("import a from 'm'", {"a"}) >>
    ELSE <<>>

(* PythonAnalyzer.analyzeRelatedImports: importPattern finds 'import a' *)
PyRelatedImports(doc, ps, i, symbols) ==
    IF ps[i].kind = "import" /\ HasPlainSymbol(symbols, "a")
    THEN << ImportStatement("import a", {"a"}) >>
    ELSE <<>>

(* GenericAnalyzer.analyzeRelatedImports pushes every match of its five    *)
(* patterns: the first two find the import line, with and without its ';', *)
(* the fifth finds the using line                                          *)
GenericImportPatternCount == 5

GenericImportMatches(k) ==
    CASE k = "import" ->
             << [p |-> 1, s |-> ImportStatement("import a from 'm';", {"a"})],
                [p |-> 2, s |-> ImportStatement("import a from 'm'", {"a"})] >>
      [] k = "using" ->
             << [p |-> 5, s |-> ImportStatement("using Foo;", {"Foo"})] >>
      [] OTHER -> <<>>

GenericImportsIn(ps) ==
    Flatten([i \in 1..Len(ps) |-> GenericImportMatches(ps[i].kind)])

GenericRelatedImports(doc) ==
    Collected(GenericImportsIn(DocumentPieces(doc)), GenericImportPatternCount)

(* analyzer.analyzeRelatedImports(document, position, relevantSymbols) *)
ImportsOfPieces(doc, lang, ps, symbols) ==
    IF lang = "python"
    THEN Flatten([i \in 1..Len(ps) |-> PyRelatedImports(doc, ps, i, symbols)])
    ELSE Flatten([i \in 1..Len(ps) |-> TsRelatedImports(doc, ps, i, symbols)])

ImportsBy(analyzer, doc, symbols) ==
    IF analyzer = "GenericAnalyzer"
    THEN GenericRelatedImports(doc)
    ELSE ImportsOfPieces(doc,
             IF analyzer = "PythonAnalyzer" THEN "python" ELSE "typescript",
             DocumentPieces(doc), symbols)

AnalyzerImports(doc, lang, symbols) ==
    ImportsBy(getLanguageAnalyzer(languageAnalyzers, lang), doc, symbols)

(* ContextAnalyzer.analyzeImportsGeneric(beforeCode, languageId): every    *)
(* import statement that is whole in beforeCode. None of the line kinds    *)
(* holds 'vscode', so the import of vscode is never added.                 *)
GenericImportsOfLine(lang, k) ==
    CASE k = "import" /\ lang \in BraceLanguages ->
             << [p |-> 1, s |-> ImportStatement("import a from 'm'", {"a"})] >>
      [] k = "import" /\ lang = "python" ->
             << [p |-> 1, s |-> ImportStatement("import a", {"a"})] >>
      [] k = "import" ->
             << [p |-> 1, s |-> ImportStatement("import a from 'm';", {"a"})] >>
      [] k = "using" /\ lang \notin BraceLanguages \cup {"python"} ->
             << [p |-> 3, s |-> ImportStatement("using Foo;", {"Foo"})] >>
      [] OTHER -> <<>>

ImportsGenericPatternCount == 3

WholeLineImportsIn(ps, lang) ==
    Flatten([i \in 1..Len(ps) |->
                IF ps[i].part = "whole"
                THEN GenericImportsOfLine(lang, ps[i].kind)
                ELSE <<>>])

analyzeImportsGeneric(doc, beforeCode, lang) ==
    Collected(WholeLineImportsIn(Pieces(doc, beforeCode), lang),
              ImportsGenericPatternCount)

(* result.relatedImports of performEnhancedAnalysis: the analyzer's        *)
(* imports, and with none of them those of analyzeImportsGeneric           *)
RelatedImports(doc, lang, beforeCode, symbols) ==
    OrWhenEmpty(AnalyzerImports(doc, lang, symbols),
                analyzeImportsGeneric(doc, beforeCode, lang))

(* ---------------------------------------------------------------------- *)
(* The indentation                                                         *)
(* ---------------------------------------------------------------------- *)
(* The brackets of the line kinds with their index in the line: '{', '('   *)
(* and '[' open, '}', ')' and ']' close.                                   *)
Bracket(at, open) == [at |-> at, open |-> open]

BracketsOf(k) ==
    CASE k = "stmt" -> << Bracket(1, TRUE), Bracket(2, FALSE) >>
      [] k = "fn" -> << Bracket(10, TRUE), Bracket(11, FALSE),
                         Bracket(13, TRUE) >>
      [] k \in {"fnsig", "arrow"} ->
             << Bracket(10, TRUE), Bracket(11, FALSE) >>
      [] k = "open" -> << Bracket(0, TRUE) >>
      [] k = "close" -> << Bracket(0, FALSE) >>
      [] k = "if" -> << Bracket(3, TRUE), Bracket(5, FALSE), Bracket(7, TRUE) >>
      [] k = "arrowfn" -> << Bracket(10, TRUE), Bracket(11, FALSE),
                              Bracket(16, TRUE) >>
      [] k = "def" -> << Bracket(5, TRUE), Bracket(6, FALSE) >>
      [] k = "api" -> << Bracket(11, TRUE), Bracket(12, FALSE) >>
      [] OTHER -> <<>>

(* the opening, or the closing, brackets of beforeCursor *)
BracketsBefore(doc, position, open) ==
    LET b == BracketsOf(lineAt(doc, position.line).kind)
    IN  Cardinality({i \in 1..Len(b) :
                        b[i].at < position.character /\ b[i].open = open})

(* (beforeCursor.match(/[{([]/) || []).length: the pattern has no g flag   *)
(* and no group, so a match is an array of one element                    *)
MatchLength(occurrences) == IF occurrences > 0 THEN 1 ELSE 0

(* An indentation string: so many spaces and so many tabs. The white space *)
(* the line kinds start with is spaces.                                    *)
Indentation(spaces, tabs) == [spaces |-> spaces, tabs |-> tabs]

(* ContextAnalyzer.getIndentation(beforeCursor) *)
getIndentation(doc, position) ==
    Indentation(Min(getIndentationLevel(lineAt(doc, position.line)),
                    position.character), 0)

(* get('tabSize') || 4 and get('insertSpaces', true) *)
DefaultTabSize == 4

EditorConfig(tabSize, insertSpaces) ==
    [tabSize |-> tabSize, insertSpaces |-> insertSpaces]

DefaultEditorConfig == EditorConfig(DefaultTabSize, TRUE)

(* currentIndentation + ' '.repeat(tabSize), or + '\t' *)
OneLevelDeeper(indentation, config) ==
    IF config.insertSpaces
    THEN Indentation(indentation.spaces
                       + (IF config.tabSize = 0 THEN DefaultTabSize
                          ELSE config.tabSize),
                     indentation.tabs)
    ELSE Indentation(indentation.spaces, indentation.tabs + 1)

(* blockStarters: the trimmed line ends with '{', '(' or '[', or with ':' *)
EndsWithBlockStarter(l) ==
    l.pad = 0 /\ l.kind \in {"fn", "open", "if", "arrowfn", "def"}

(* ContextAnalyzer.analyzeExpectedIndentation *)
analyzeExpectedIndentation(doc, position, config) ==
    LET currentIndentation == getIndentation(doc, position)
        prevLineNum == position.line - 1
        openBrackets == MatchLength(BracketsBefore(doc, position, TRUE))
        closeBrackets == MatchLength(BracketsBefore(doc, position, FALSE))
    IN  IF prevLineNum >= 0 /\ EndsWithBlockStarter(lineAt(doc, prevLineNum))
        THEN OneLevelDeeper(currentIndentation, config)
        ELSE IF openBrackets > closeBrackets
        THEN OneLevelDeeper(currentIndentation, config)
        ELSE currentIndentation

(* ---------------------------------------------------------------------- *)
(* ContextAnalyzer.getContext                                              *)
(* ---------------------------------------------------------------------- *)
SmallDocumentLimit == 40000
ShortPrefixLimit == 4000
DefaultContextLineCount == 50
MinScopeLines == 2

(* config.get('contextLineCount') || 50 *)
EffectiveLineCount(configured) ==
    IF configured = 0 THEN DefaultContextLineCount ELSE configured

ContextInfo(branch, beforeCode, afterCode, doc, position, range, used) ==
    [branch       |-> branch,
     beforeCode   |-> beforeCode,
     beforeCursor |-> getText(doc, Position(position.line, 0), position),
     afterCursor  |-> getText(doc, position,
                         Position(position.line,
                                  LineLength(lineAt(doc, position.line)))),
     afterCode    |-> afterCode,
     range        |-> range,
     usedFunctionContext |-> used]

EndOfDocument(doc) ==
    Position(Len(doc) - 1, LineLength(lineAt(doc, Len(doc) - 1)))

(* the document is shorter than SmallDocumentLimit *)
SmallDocumentContext(doc, position, range) ==
    ContextInfo("small",
                getText(doc, Position(0, 0), position),
                getText(doc, position, EndOfDocument(doc)),
                doc, position, range, FALSE)

(* the text before the cursor is shorter than ShortPrefixLimit *)
ShortPrefixContext(doc, position, range, lineCount) ==
    LET endLine == Min(Len(doc) - 1, position.line + lineCount)
        used == range.ok /\ range.end.line >= position.line
    IN  ContextInfo("prefix",
                    getText(doc, Position(0, 0), position),
                    IF used
                    THEN getText(doc, position, range.end)
                    ELSE getText(doc, position,
                             Position(endLine,
                                      LineLength(lineAt(doc, endLine)))),
                    doc, position, range, used)

(* the checks of the detected range in the large-document branch *)
RangeIsUsable(doc, position, range) ==
    /\ range.ok
    /\ ~(range.start.line < 0 \/ range.end.line >= Len(doc))
    /\ ~(position.line < range.start.line \/ position.line > range.end.line)
    /\ ~(range.end.line - range.start.line < MinScopeLines)

LargeDocumentContext(doc, position, range, lineCount) ==
    LET used == RangeIsUsable(doc, position, range)
        fixedStart == Max(0, position.line - lineCount)
        fixedEnd == Min(Len(doc) - 1, position.line + lineCount)
        startLine == IF used THEN range.start.line ELSE fixedStart
        endLine == IF used THEN range.end.line ELSE fixedEnd
        incomplete ==
            /\ used
            /\ \/ LinesBlank(doc, startLine, position.line - 1)
               \/ LinesBlank(doc, position.line + 1, endLine)
    IN  IF incomplete
        THEN ContextInfo("large",
                 LinesText(doc, fixedStart, position.line - 1),
                 LinesText(doc, position.line + 1, fixedEnd),
                 doc, position, range, used)
        ELSE ContextInfo("large",
                 LinesText(doc, startLine, position.line - 1),
                 LinesText(doc, position.line + 1, endLine),
                 doc, position, range, used)

(* the four texts and the range getContext settles on *)
TextsAround(doc, position, range, lineCount) ==
    IF TextLength(doc) < SmallDocumentLimit
    THEN SmallDocumentContext(doc, position, range)
    ELSE IF offsetAt(doc, position) < ShortPrefixLimit
    THEN ShortPrefixContext(doc, position, range, lineCount)
    ELSE LargeDocumentContext(doc, position, range, lineCount)

ContextTexts(doc, lang, position, configured) ==
    TextsAround(doc, position,
                getCurrentFunctionOrClassRange(doc, lang, position),
                EffectiveLineCount(configured))

(* The sub-analyses, one of which may throw at its first statement: the  *)
(* symbol extraction inside analyzeNearbySymbols, the structure matcher    *)
(* called first (analyzeJSCodeStructure, or the analyzer's                 *)
(* analyzeCodeStructure), the analyzer's analyzeCurrentScope, the          *)
(* analyzer's analyzeRelatedImports, and analyzeExpectedIndentation. The   *)
(* description of the syntax context is not part of the model.             *)
SubAnalyses == {"symbols", "structure", "scope", "imports", "indentation"}

(* the shared try block around the analyzer's calls, for the languages     *)
(* that are not brace languages: a throw skips the calls after it          *)
SkippedByThrow(lang, fault) ==
    IF lang \in BraceLanguages THEN {}
    ELSE CASE fault = "structure" -> {"scope"}
           [] OTHER -> {}

(* ContextAnalyzer.performEnhancedAnalysis *)
performEnhancedAnalysis(doc, lang, position, beforeCode, afterCode, fault) ==
    LET relevantSymbols ==
            IF fault = "symbols" THEN {}
            ELSE analyzeNearbySymbols(doc, lang, position,
                     getCurrentFunctionOrClassRange(doc, lang, position),
                     beforeCode, afterCode)
    IN  [symbolInfo |-> relevantSymbols,
         codeStructure |->
             IF fault = "structure"
             THEN analyzeControlStructures(doc, lang, beforeCode, afterCode)
             ELSE CodeStructure(doc, lang, beforeCode, afterCode),
         currentScope |->
             IF fault = "scope"
             THEN IF lang \in BraceLanguages THEN GlobalScope ELSE NoScope
             ELSE IF "scope" \in SkippedByThrow(lang, fault) THEN NoScope
             ELSE CurrentScope(doc, lang, position, beforeCode),
         relatedImports |->
             IF fault = "imports"
             THEN analyzeImportsGeneric(doc, beforeCode, lang)
             ELSE RelatedImports(doc, lang, beforeCode, relevantSymbols)]

(* the ContextInfo getContext returns *)
AnalysedContext(texts, doc, lang, position, config, fault) ==
    texts
      @@ [indentation |-> getIndentation(doc, position),
          expectedIndentation |->
              analyzeExpectedIndentation(doc, position, config)]
      @@ performEnhancedAnalysis(doc, lang, position,
             texts.beforeCode, texts.afterCode, fault)

getContext(doc, lang, position, configured, config, fault) ==
    AnalysedContext(ContextTexts(doc, lang, position, configured),
                    doc, lang, position, config, fault)

(* getContext ends with the exception: nothing catches a throw of          *)
(* analyzeExpectedIndentation or of analyzeJSCodeStructure                 *)
Throws(lang, fault) ==
    \/ fault = "indentation"
    \/ fault = "structure" /\ lang \in BraceLanguages

(* getContext does not return: the scope loop of its enhanced analysis    *)
(* never ends                                                              *)
NeverReturns(doc, lang, position, configured, fault) ==
    /\ fault # "scope"
    /\ NeedsEnhancedScope(doc, lang, position)
    /\ ScopeLoopNeverEnds(doc,
           ContextTexts(doc, lang, position, configured).beforeCode)

(* ---------------------------------------------------------------------- *)
(* The documents and cursors getContext is applied to                      *)
(* ---------------------------------------------------------------------- *)
MaxLines == 3
LongPad == 40000

BraceLines ==
    {Line(k, 0) : k \in {"blank", "stmt", "fn", "if", "close", "arrow"}}
      \cup {Line("stmt", LongPad), Line("fn", LongPad)}

PythonLines ==
    {Line(k, 0) : k \in {"blank", "ws", "stmt", "def", "body"}}
      \cup {Line("stmt", LongPad), Line("body", LongPad)}

Languages == {"javascript", "python", "plaintext"}

LinesOf(lang) == IF lang = "python" THEN PythonLines ELSE BraceLines

Documents(lang) ==
    UNION {[1..n -> LinesOf(lang)] : n \in 1..MaxLines}

(* the cursor columns tried on a line: its start, inside its text, its    *)
(* end, and a column past ShortPrefixLimit where the line is that long    *)
Columns(l) ==
    {0, Min(CutColumn, LineLength(l)), LineLength(l)}
      \cup (IF LineLength(l) > ShortPrefixLimit
            THEN {ShortPrefixLimit} ELSE {})

Cursors(doc) ==
    UNION {{Position(n, c) : c \in Columns(lineAt(doc, n))}
              : n \in 0..(Len(doc) - 1)}

LineCounts == {0, 1}

NoContext ==
    ContextInfo("none", EmptyText, EmptyText, <<Line("blank", 0)>>,
                Position(0, 0), NullRange, FALSE)
      @@ [indentation |-> Indentation(0, 0),
          expectedIndentation |-> Indentation(0, 0),
          symbolInfo |-> {}, codeStructure |-> <<>>,
          currentScope |-> NoScope, relatedImports |-> <<>>]

(* what getContext reads of the editor *)
EditorInput(doc, lang, position, configured, config) ==
    [document |-> doc, languageId |-> lang, cursorPosition |-> position,
     contextLineCount |-> configured, editorConfig |-> config]

(* no call of getContext was made yet *)
NoCall ==
    [stage |-> "none",
     input |-> EditorInput(<<Line("blank", 0)>>, "plaintext", Position(0, 0),
                           0, DefaultEditorConfig),
     info |-> NoContext,
     outcome |-> "input"]

(* the first call is remembered with what it returned; of a later call     *)
(* nothing is                                                              *)
Remembered(call, input, info, outcome) ==
    IF call.stage = "none"
    THEN [stage |-> "first", input |-> input, info |-> info,
          outcome |-> outcome]
    ELSE call

CtxIdle ==
    /\ document = <<Line("blank", 0)>>
    /\ languageId = "plaintext"
    /\ cursorPosition = Position(0, 0)
    /\ contextLineCount = 0
    /\ editorConfig = DefaultEditorConfig
    /\ throwing = "none"
    /\ contextInfo = NoContext
    /\ languageAnalyzers = NoAnalyzers
    /\ earlier = NoCall
    /\ cpc = "idle"

CtxInit ==
    /\ languageId \in Languages
    /\ document \in Documents(languageId)
    /\ cursorPosition \in Cursors(document)
    /\ contextLineCount \in LineCounts
    /\ editorConfig = DefaultEditorConfig
    /\ throwing = "none"
    /\ contextInfo = NoContext
    /\ languageAnalyzers = NoAnalyzers
    /\ earlier = NoCall
    /\ cpc = "input"

(* the documents of the enhanced analysis: statements, closing braces and *)
(* function declarations, with arrow functions for the brace languages    *)
(* and a control-flow block for the others                                 *)
MaxScopeLines == 4

ScopeLines(lang) ==
    IF lang = "python"
    THEN {Line(k, 0) : k \in {"stmt", "def", "body"}}
    ELSE IF lang \in BraceLanguages
    THEN {Line(k, 0) : k \in {"stmt", "fn", "arrowfn", "close"}}
    ELSE {Line(k, 0) : k \in {"stmt", "fn", "if", "close"}}

AnalysisLanguages == {"javascript", "plaintext", "python"}

AnalysisDocuments(lang) ==
    UNION {[1..n -> ScopeLines(lang)] : n \in 1..MaxScopeLines}

AnalysisInit ==
    /\ languageId \in AnalysisLanguages
    /\ document \in AnalysisDocuments(languageId)
    /\ cursorPosition \in Cursors(document)
    /\ contextLineCount = 1
    /\ editorConfig = DefaultEditorConfig
    /\ throwing = "none"
    /\ contextInfo = NoContext
    /\ languageAnalyzers = NoAnalyzers
    /\ earlier = NoCall
    /\ cpc = "input"

(* the documents of the symbol and import analysis: import statements of *)
(* two styles, statements and a name of the API patterns, in documents     *)
(* small and large                                                         *)
MaxImportLines == 3

ImportLines ==
    {Line(k, 0) : k \in {"using", "import", "stmt", "api"}}
      \cup {Line("stmt", LongPad)}

ImportDocuments ==
    UNION {[1..n -> ImportLines] : n \in 1..MaxImportLines}

SymbolInit ==
    /\ languageId \in AnalysisLanguages
    /\ document \in ImportDocuments
    /\ cursorPosition \in Cursors(document)
    /\ contextLineCount = 1
    /\ editorConfig = DefaultEditorConfig
    /\ throwing = "none"
    /\ contextInfo = NoContext
    /\ languageAnalyzers = NoAnalyzers
    /\ earlier = NoCall
    /\ cpc = "input"

(* the documents of the indentation analysis, with the editor set to      *)
(* spaces of several widths (0: tabSize not set) and to tabs               *)
MaxIndentLines == 2

IndentLines ==
    {Line(k, 0) : k \in {"stmt", "if", "open", "close", "body", "fn"}}

IndentDocuments ==
    UNION {[1..n -> IndentLines] : n \in 1..MaxIndentLines}

EditorConfigs ==
    {EditorConfig(size, TRUE) : size \in {0, 2, 4}}
      \cup {EditorConfig(4, FALSE)}

EditorInit ==
    /\ languageId \in {"javascript", "plaintext"}
    /\ document \in IndentDocuments
    /\ cursorPosition \in Cursors(document)
    /\ contextLineCount = 0
    /\ editorConfig \in EditorConfigs
    /\ throwing = "none"
    /\ contextInfo = NoContext
    /\ languageAnalyzers = NoAnalyzers
    /\ earlier = NoCall
    /\ cpc = "input"

(* the documents of the analysis with one sub-analysis throwing *)
MaxFaultLines == 2

FaultLines ==
    {Line(k, 0) : k \in {"stmt", "fn", "if", "import", "close"}}

FaultDocuments ==
    UNION {[1..n -> FaultLines] : n \in 1..MaxFaultLines}

FaultInit ==
    /\ languageId \in AnalysisLanguages
    /\ document \in FaultDocuments
    /\ cursorPosition \in Cursors(document)
    /\ contextLineCount = 0
    /\ editorConfig = DefaultEditorConfig
    /\ throwing \in SubAnalyses \cup {"none"}
    /\ contextInfo = NoContext
    /\ languageAnalyzers = NoAnalyzers
    /\ earlier = NoCall
    /\ cpc = "input"

(* the provider asks the analyzer for the context at the cursor *)
GetContext ==
    /\ cpc = "input"
    /\ IF Throws(languageId, throwing)
       THEN cpc' = "thrown" /\ UNCHANGED contextInfo
       ELSE IF NeverReturns(document, languageId, cursorPosition,
                            contextLineCount, throwing)
       THEN cpc' = "busy" /\ UNCHANGED contextInfo
       ELSE /\ contextInfo' = getContext(document, languageId,
                                         cursorPosition, contextLineCount,
                                         editorConfig, throwing)
            /\ cpc' = "done"
    /\ languageAnalyzers' =
           IF throwing = "indentation" THEN languageAnalyzers
           ELSE AnalyzerCached(languageAnalyzers, languageId)
    /\ earlier' = Remembered(earlier,
                       EditorInput(document, languageId, cursorPosition,
                                   contextLineCount, editorConfig),
                       contextInfo', cpc')
    /\ UNCHANGED <<document, languageId, cursorPosition, contextLineCount,
                   editorConfig, throwing>>
    /\ UNCHANGED <<provVars, promptVars>>

(* getContext's first step alone: the scope resolver applied to the        *)
(* document and the cursor                                                 *)
ResolveScope ==
    /\ cpc = "input"
    /\ contextInfo' =
           [contextInfo EXCEPT
               !.range = getCurrentFunctionOrClassRange(document, languageId,
                                                        cursorPosition)]
    /\ cpc' = "resolved"
    /\ UNCHANGED <<document, languageId, cursorPosition, contextLineCount,
                   editorConfig, throwing, languageAnalyzers, earlier>>
    /\ UNCHANGED <<provVars, promptVars>>

(* the documents of the repeated call: declarations, imports and           *)
(* statements of each language                                             *)
MaxCacheLines == 2

CacheLines(lang) ==
    IF lang = "python"
    THEN {Line(k, 0) : k \in {"def", "import", "stmt"}}
    ELSE {Line(k, 0) : k \in {"fn", "import", "stmt"}}

CacheDocuments(lang) ==
    UNION {[1..n -> CacheLines(lang)] : n \in 1..MaxCacheLines}

CacheInit ==
    /\ languageId \in Languages
    /\ document \in CacheDocuments(languageId)
    /\ cursorPosition \in Cursors(document)
    /\ contextLineCount = 1
    /\ editorConfig = DefaultEditorConfig
    /\ throwing = "none"
    /\ contextInfo = NoContext
    /\ languageAnalyzers = NoAnalyzers
    /\ earlier = NoCall
    /\ cpc = "input"

(* the editor shows a document of some language, with one statement *)
OpenOther ==
    /\ cpc \in {"done", "thrown"}
    /\ earlier.stage = "first"
    /\ languageId' \in Languages
    /\ document' = <<Line("stmt", 0)>>
    /\ cursorPosition' = Position(0, 0)
    /\ contextInfo' = NoContext
    /\ earlier' = [earlier EXCEPT !.stage = "other"]
    /\ cpc' = "input"
    /\ UNCHANGED <<contextLineCount, editorConfig, throwing,
                   languageAnalyzers>>
    /\ UNCHANGED <<provVars, promptVars>>

(* the editor shows the document and the cursor of the first call again *)
Reopen ==
    /\ cpc \in {"done", "thrown"}
    /\ earlier.stage \in {"first", "other"}
    /\ languageId' = earlier.input.languageId
    /\ document' = earlier.input.document
    /\ cursorPosition' = earlier.input.cursorPosition
    /\ contextInfo' = NoContext
    /\ earlier' = [earlier EXCEPT !.stage = "again"]
    /\ cpc' = "input"
    /\ UNCHANGED <<contextLineCount, editorConfig, throwing,
                   languageAnalyzers>>
    /\ UNCHANGED <<provVars, promptVars>>


(* ---------------------------------------------------------------------- *)
(* PromptBuilder: texts                                                    *)
(* ---------------------------------------------------------------------- *)
(* A prompt text is a sequence of atoms [k, n]: n characters of kind k.   *)
(*   "x"   text without '## ', without a blank line, without one of the   *)
(*         words below and not starting or ending with a line feed        *)
(*   "nl"  one line feed                                                   *)
(*   "h2"  the section mark '## '                                          *)
(* and the words truncatePrompt looks for, each with its own length:      *)
(*   codeContext '代码上下文'    enhanced    '增强上下文信息'               *)
(*   userReq     '用户要求'      userSpecial '用户特别要求'                 *)
(*   provide     '请提供'        important   '重要:'                        *)
(*   symbols     '相关标识符'    indent      '缩进信息'                     *)
(*   scope       '当前作用域'    syntax      '语法上下文'                   *)
Atom(k, n) == [k |-> k, n |-> n]

KeywordLength(k) ==
    CASE k = "codeContext" -> 5
      [] k = "enhanced"    -> 7
      [] k = "userReq"     -> 4
      [] k = "userSpecial" -> 6
      [] k = "provide"     -> 3
      [] k = "important"   -> 3
      [] k = "symbols"     -> 5
      [] k = "indent"      -> 4
      [] k = "scope"       -> 5
      [] k = "syntax"      -> 5

Kw(k) == <<Atom(k, KeywordLength(k))>>

X(n) == IF n = 0 THEN <<>> ELSE <<Atom("x", n)>>

(* the whole text of a section that holds none of the words above, kept    *)
(* apart from other plain text: "structure", "imports", "project",         *)
(* "guidance"                                                              *)
Whole(k, n) == <<Atom(k, n)>>

NL == <<Atom("nl", 1)>>

BlankLine == NL \o NL

H2 == <<Atom("h2", 3)>>

(* String.length *)
RECURSIVE Length(_)
Length(t) == IF t = <<>> THEN 0 ELSE Head(t).n + Length(Tail(t))

(* the first n characters of t; an atom cut in two is plain text *)
RECURSIVE Take(_, _)
Take(t, n) ==
    IF n <= 0 \/ t = <<>> THEN <<>>
    ELSE IF Head(t).n <= n
         THEN <<Head(t)>> \o Take(Tail(t), n - Head(t).n)
    ELSE X(n)

(* t without its first n characters *)
RECURSIVE Drop(_, _)
Drop(t, n) ==
    IF t = <<>> THEN <<>>
    ELSE IF n <= 0 THEN t
    ELSE IF Head(t).n <= n THEN Drop(Tail(t), n - Head(t).n)
    ELSE X(Head(t).n - n) \o Tail(t)

(* String.substring(a, b): both ends clamped to the text, swapped if a > b *)
substring(t, a, b) ==
    LET ca == Max(0, Min(a, Length(t)))
        cb == Max(0, Min(b, Length(t)))
    IN  Take(Drop(t, Min(ca, cb)), Max(ca, cb) - Min(ca, cb))

(* String.startsWith(word), String.includes(word) *)
startsWith(t, k) == t # <<>> /\ t[1].k = k

includes(t, k) == \E i \in 1..Len(t) : t[i].k = k

(* prompt.split('## ') *)
RECURSIVE SplitSections(_)
SplitSections(t) ==
    IF ~includes(t, "h2") THEN <<t>>
    ELSE LET i == CHOOSE j \in 1..Len(t) :
                      /\ t[j].k = "h2"
                      /\ \A m \in 1..(j - 1) : t[m].k # "h2"
         IN  <<SubSeq(t, 1, i - 1)>> \o SplitSections(SubSeq(t, i + 1, Len(t)))

(* the places where a blank line ('\n\n') starts *)
BlankAt(t) == {j \in 1..(Len(t) - 1) : t[j].k = "nl" /\ t[j + 1].k = "nl"}

(* text.split('\n\n') *)
RECURSIVE SplitParts(_)
SplitParts(t) ==
    IF BlankAt(t) = {} THEN <<t>>
    ELSE LET i == CHOOSE j \in BlankAt(t) : \A m \in BlankAt(t) : j <= m
         IN  <<SubSeq(t, 1, i - 1)>> \o SplitParts(SubSeq(t, i + 2, Len(t)))

(* Array.filter(Boolean) on texts: the empty ones go *)
FilterNonEmpty(parts) == SelectSeq(parts, LAMBDA p : p # <<>>)

(* Array.join(sep) *)
RECURSIVE Join(_, _)
Join(parts, sep) ==
    IF parts = <<>> THEN <<>>
    ELSE IF Len(parts) = 1 THEN parts[1]
    ELSE parts[1] \o sep \o Join(Tail(parts), sep)

(* Array.slice(a, b) with 0 <= a, counted from 0, b exclusive *)
Slice(parts, a, b) == SubSeq(parts, a + 1, Min(b, Len(parts)))

(* ---------------------------------------------------------------------- *)
(* PromptBuilder.truncatePrompt                                            *)
(* ---------------------------------------------------------------------- *)
CharsPerToken == 4

(* '\n...\n' *)
Ellipsis == NL \o X(3) \o NL

(* '\n\n(代码上下文已截断)\n' *)
CodeTruncatedNotice ==
    BlankLine \o X(1) \o Kw("codeContext") \o X(4) \o NL

(* '\n\n请根据可见的上下文提供最合理的代码补全。' *)
VisibleContextNotice == BlankLine \o X(20)

(* '\n\n(增强上下文信息已省略以符合token限制)' *)
EnhancedOmittedNotice == BlankLine \o X(1) \o Kw("enhanced") \o X(14)

IncludesUserRequest(t) == includes(t, "userReq") \/ includes(t, "userSpecial")

IncludesInstruction(t) == includes(t, "provide") \/ includes(t, "important")

NoSections ==
    [codeContext |-> <<>>, enhancedContext |-> <<>>, userPrompt |-> <<>>,
     finalInstructions |-> <<>>]

(* the loop over the parts of a user-request section *)
RECURSIVE ClassifyParts(_, _, _)
ClassifyParts(parts, j, acc) ==
    IF j > Len(parts) THEN acc
    ELSE IF IncludesUserRequest(parts[j])
         THEN ClassifyParts(parts, j + 1, [acc EXCEPT !.userPrompt = parts[j]])
    ELSE IF IncludesInstruction(parts[j])
         THEN ClassifyParts(parts, j + 1,
                  [acc EXCEPT !.finalInstructions =
                      IF @ # <<>> THEN @ \o BlankLine \o parts[j]
                      ELSE parts[j]])
    ELSE ClassifyParts(parts, j + 1, acc)

(* the loop over sections[1..] *)
RECURSIVE ClassifySections(_, _, _)
ClassifySections(sections, i, acc) ==
    IF i > Len(sections) THEN acc
    ELSE IF startsWith(sections[i], "codeContext")
         THEN ClassifySections(sections, i + 1,
                  [acc EXCEPT !.codeContext = H2 \o sections[i]])
    ELSE IF startsWith(sections[i], "enhanced")
         THEN ClassifySections(sections, i + 1,
                  [acc EXCEPT !.enhancedContext = H2 \o sections[i]])
    ELSE IF IncludesUserRequest(sections[i])
         THEN ClassifySections(sections, i + 1,
                  ClassifyParts(SplitParts(sections[i]), 1, acc))
    ELSE ClassifySections(sections, i + 1, acc)

(* the simple cut of a prompt without sections *)
SimpleTruncation(prompt, maxTokens) ==
    LET targetLength == maxTokens * CharsPerToken
        halfLength == targetLength \div 2
    IN  substring(prompt, 0, halfLength) \o Ellipsis
          \o substring(prompt, Length(prompt) - halfLength, Length(prompt))

(* system prompt and code context cut in proportion to their sizes:      *)
(* availableTokens = maxTokens * 0.9, chars = floor(available * 4 * ratio) *)
ProportionalTruncation(systemPrompt, codeContext, maxTokens) ==
    LET total == Length(systemPrompt) + Length(codeContext)
        systemChars == (9 * maxTokens * CharsPerToken * Length(systemPrompt))
                          \div (10 * total)
        codeChars == (9 * maxTokens * CharsPerToken * Length(codeContext))
                          \div (10 * total)
    IN  substring(systemPrompt, 0, systemChars)
          \o (IF codeContext # <<>>
              THEN CodeTruncatedNotice \o substring(codeContext, 0, codeChars)
              ELSE <<>>)
          \o VisibleContextNotice

IsEnhancedHeader(part) ==
    Len(part) >= 2 /\ part[1].k = "h2" /\ part[2].k = "enhanced"

IsFirstPriority(part) == includes(part, "symbols") \/ includes(part, "indent")

IsSecondPriority(part) == includes(part, "scope") \/ includes(part, "syntax")

(* the parts of the enhanced context tried in the order of the text *)
PartsInTextOrder(enhancedContext) ==
    FilterNonEmpty(SplitParts(enhancedContext))

(* the parts of the enhanced context in the order they are tried *)
PrioritizedParts(enhancedContext) ==
    LET all == FilterNonEmpty(SplitParts(enhancedContext))
        hasHeader == all # <<>> /\ IsEnhancedHeader(all[1])
        header == IF hasHeader THEN <<all[1]>> ELSE <<>>
        parts == IF hasHeader THEN Tail(all) ELSE all
        first == SelectSeq(parts, IsFirstPriority)
        rest1 == SelectSeq(parts, LAMBDA p : ~IsFirstPriority(p))
        second == SelectSeq(rest1, IsSecondPriority)
        rest2 == SelectSeq(rest1, LAMBDA p : ~IsSecondPriority(p))
    IN  header \o first \o second \o rest2

(* currentTokens + partTokens <= maxTokens * 0.98, in characters *)
FitsBudget(chars, maxTokens) == 25 * chars <= 98 * maxTokens

(* the parts added one by one until the first that does not fit *)
RECURSIVE SelectParts(_, _, _, _)
SelectParts(parts, i, currentChars, maxTokens) ==
    IF i > Len(parts) THEN <<>>
    ELSE IF FitsBudget(currentChars + Length(parts[i]), maxTokens)
         THEN <<parts[i]>> \o SelectParts(parts, i + 1,
                                 currentChars + Length(parts[i]), maxTokens)
    ELSE <<>>

truncatePrompt(prompt, maxTokens) ==
    LET sections == SplitSections(prompt)
        systemPrompt == sections[1]
        found == ClassifySections(sections, 2, NoSections)
        criticalParts ==
            FilterNonEmpty(<<systemPrompt, found.codeContext,
                             found.userPrompt, found.finalInstructions>>)
        criticalText == Join(criticalParts, BlankLine)
        selectedParts ==
            SelectParts(PrioritizedParts(found.enhancedContext), 1,
                        Length(criticalText), maxTokens)
    IN  IF Length(prompt) <= maxTokens * CharsPerToken THEN prompt
        ELSE IF Len(sections) < 2 THEN SimpleTruncation(prompt, maxTokens)
        ELSE IF Length(criticalText) > maxTokens * CharsPerToken
        THEN IF Length(systemPrompt) + Length(found.codeContext)
                    > maxTokens * CharsPerToken
             THEN ProportionalTruncation(systemPrompt, found.codeContext,
                                         maxTokens)
             ELSE criticalText
        ELSE IF /\ Length(criticalText) < maxTokens * CharsPerToken
                /\ found.enhancedContext # <<>>
        THEN IF \/ Len(selectedParts) = 0
                \/ (Len(selectedParts) = 1 /\ startsWith(selectedParts[1], "h2"))
             THEN criticalText \o EnhancedOmittedNotice
             ELSE Join(Slice(criticalParts, 0, 2), BlankLine) \o BlankLine
                    \o Join(selectedParts, BlankLine) \o BlankLine
                    \o Join(Slice(criticalParts, 2, Len(criticalParts)),
                            BlankLine)
        ELSE criticalText

(* ---------------------------------------------------------------------- *)
(* PromptBuilder: the sections of a prompt                                  *)
(* ---------------------------------------------------------------------- *)
(* The lengths of the literal texts of the section builders; the words    *)
(* truncatePrompt looks for are atoms of their own.                        *)
SystemPromptLineMode == 677
SystemPromptSnippetMode == 671
ProviderAddendum == 42
CodeFrameLineMode == 201
CodeFrameSnippetMode == 204
CodeHeadFixed == 41
CursorMark == 6
StructureInfoFixed == 70
SyntaxInfoFixed == 78
ScopeInfoFixed == 73
ImportsInfoFixed == 69
SymbolsInfoFixed == 96
IndentationInfoFixed == 71
ProjectInfoFixed == 90
LanguageGuidanceLength == 178
UserSpecialFixed == 58
UserDefaultFixed == 45
DefaultPromptLength == 22
ProvideLineMode == 8
ProvideSnippetMode == 9
ImportantLength == 30
HeaderNoteLength == 8

(* the sizes of what the context puts into the sections *)
NameLength == 12
LongList == 600

(* buildSystemPrompt, with the addendum of the default provider and model *)
buildSystemPrompt(mode) ==
    X((IF mode = "line" THEN SystemPromptLineMode
       ELSE SystemPromptSnippetMode) + ProviderAddendum)

(* buildCodeContextInfo: file name and language, the code before the      *)
(* cursor, the cursor's line with its mark, the code after the cursor and  *)
(* the guidance, one per line. codeHeading: the code before the cursor     *)
(* starts with '## '.                                                      *)
buildCodeContextInfo(in) ==
    LET frame == IF in.mode = "line" THEN CodeFrameLineMode
                 ELSE CodeFrameSnippetMode
        names == 2 * NameLength
    IN  IF in.codeHeading
        THEN X(names + CodeHeadFixed) \o NL \o H2
               \o X(in.codeLength + CursorMark + frame - CodeHeadFixed - 1)
        ELSE X(names + frame + in.codeLength + CursorMark)

buildCodeStructureInfo(in) ==
    IF in.structure THEN Whole("structure", StructureInfoFixed + NameLength)
    ELSE <<>>

(* '当前语法上下文: ...' *)
buildSyntaxContextInfo(in) ==
    IF in.syntax
    THEN X(2) \o Kw("syntax")
           \o X(SyntaxInfoFixed - 2 - KeywordLength("syntax") + NameLength)
    ELSE <<>>

(* '当前作用域: ...' *)
buildScopeInfo(in) ==
    IF in.scope
    THEN Kw("scope") \o X(ScopeInfoFixed - KeywordLength("scope") + NameLength)
    ELSE <<>>

buildImportsInfo(in) ==
    IF in.importsLength > 0
    THEN Whole("imports", ImportsInfoFixed + in.importsLength)
    ELSE <<>>

(* '相关标识符: ...' *)
buildSymbolsInfo(in) ==
    IF in.symbols
    THEN Kw("symbols")
           \o X(SymbolsInfoFixed - KeywordLength("symbols") + NameLength)
    ELSE <<>>

(* '缩进信息: 当前缩进: "..."': always there *)
buildIndentationInfo(in) ==
    Kw("indent") \o X(IndentationInfoFixed - KeywordLength("indent"))

buildProjectInfo(in) ==
    IF in.project THEN Whole("project", ProjectInfoFixed + NameLength)
    ELSE <<>>

buildLanguageGuidance(in) ==
    IF in.guidance THEN Whole("guidance", LanguageGuidanceLength) ELSE <<>>

(* '用户特别要求: ...' or '用户要求: ' with the default prompt *)
buildUserPrompt(in) ==
    IF in.userPromptLength > 0
    THEN Kw("userSpecial")
           \o X(UserSpecialFixed - KeywordLength("userSpecial")
                  + in.userPromptLength)
    ELSE Kw("userReq")
           \o X(UserDefaultFixed - KeywordLength("userReq")
                  + DefaultPromptLength)

(* '请提供单行代码。' or '请提供完整代码段。' *)
ProvideInstruction(mode) ==
    Kw("provide")
      \o X((IF mode = "line" THEN ProvideLineMode ELSE ProvideSnippetMode)
             - KeywordLength("provide"))

(* '重要: 请仅生成光标位置处的代码，不要重复光标后已有的代码！' *)
ImportantInstruction ==
    Kw("important") \o X(ImportantLength - KeywordLength("important"))

(* '## 代码上下文（核心参考信息）' and '## 增强上下文信息（辅助参考信息）' *)
CodeContextHeader == H2 \o Kw("codeContext") \o X(HeaderNoteLength)

EnhancedContextHeader == H2 \o Kw("enhanced") \o X(HeaderNoteLength)

(* ---------------------------------------------------------------------- *)
(* PromptBuilder.buildPrompt                                               *)
(* ---------------------------------------------------------------------- *)
(* the enhanced-context parts in the order of the default format *)
DefaultEnhancedParts(in) ==
    FilterNonEmpty(<<buildScopeInfo(in), buildSyntaxContextInfo(in),
                     buildCodeStructureInfo(in), buildSymbolsInfo(in),
                     buildImportsInfo(in), buildIndentationInfo(in)>>)

(* the enhanced-context parts in the order of the template format *)
TemplateEnhancedParts(in) ==
    FilterNonEmpty(<<buildCodeStructureInfo(in), buildSyntaxContextInfo(in),
                     buildScopeInfo(in), buildImportsInfo(in),
                     buildSymbolsInfo(in), buildIndentationInfo(in)>>)

(* finalPromptParts.filter(Boolean).join('\n') *)
DefaultPrompt(in) ==
    Join(FilterNonEmpty(
           <<buildSystemPrompt(in.mode), <<>>, CodeContextHeader,
             buildCodeContextInfo(in), <<>>, EnhancedContextHeader>>
           \o DefaultEnhancedParts(in)
           \o (IF buildProjectInfo(in) # <<>>
               THEN << <<>>, buildProjectInfo(in) >> ELSE <<>>)
           \o (IF buildLanguageGuidance(in) # <<>>
               THEN << <<>>, buildLanguageGuidance(in) >> ELSE <<>>)
           \o << <<>>, buildUserPrompt(in), <<>>,
                 ProvideInstruction(in.mode), ImportantInstruction >>),
         NL)

(* userPrompt || defaultPrompt, as it replaces {promptText} *)
PromptText(in) ==
    X(IF in.userPromptLength > 0 THEN in.userPromptLength
      ELSE DefaultPromptLength)

(* customPromptTemplate with its four placeholders replaced. The          *)
(* templates:                                                              *)
(*  plain     '{promptText}\n\n{codeContext}\n\n{enhancedContext}\n\n      *)
(*             {projectInfo}'                                              *)
(*  sections  '<intro>\n## 代码上下文\n{codeContext}\n\n## 增强上下文信息   *)
(*             \n\n{enhancedContext}\n\n{projectInfo}\n\n## 用户要求:      *)
(*             {promptText}'                                               *)
FilledTemplate(in) ==
    LET enhancedContext == Join(TemplateEnhancedParts(in), BlankLine)
    IN  IF in.template = "plain"
        THEN PromptText(in) \o BlankLine \o buildCodeContextInfo(in)
               \o BlankLine \o enhancedContext
               \o BlankLine \o buildProjectInfo(in)
        ELSE X(NameLength) \o NL
               \o H2 \o Kw("codeContext") \o NL \o buildCodeContextInfo(in)
               \o BlankLine
               \o H2 \o Kw("enhanced") \o BlankLine \o enhancedContext
               \o BlankLine \o buildProjectInfo(in) \o BlankLine
               \o H2 \o Kw("userReq") \o X(2) \o PromptText(in)

(* the template prompt with the two trailing instructions appended *)
TemplatePrompt(in) ==
    FilledTemplate(in) \o BlankLine \o ProvideInstruction(in.mode)
      \o NL \o ImportantInstruction

(* the prompt before truncatePrompt *)
AssembledPrompt(in) ==
    IF in.template # "none" THEN TemplatePrompt(in) ELSE DefaultPrompt(in)

buildPrompt(in) == truncatePrompt(AssembledPrompt(in), in.maxPromptTokens)

(* ---------------------------------------------------------------------- *)
(* The contexts and configurations buildPrompt is applied to               *)
(* ---------------------------------------------------------------------- *)
PromptInputs ==
    [mode : {"line", "snippet"},
     template : {"none", "plain", "sections"},
     maxPromptTokens : {70, 100, 300, 4000},
     codeLength : {0, 400, 3000},
     codeHeading : BOOLEAN,
     scope : BOOLEAN, syntax : BOOLEAN, structure : BOOLEAN,
     symbols : BOOLEAN, importsLength : {0, LongList},
     project : BOOLEAN, guidance : BOOLEAN,
     userPromptLength : {0, NameLength}]

NoPromptInput ==
    [mode |-> "line", template |-> "none", maxPromptTokens |-> 4000,
     codeLength |-> 0, codeHeading |-> FALSE, scope |-> FALSE,
     syntax |-> FALSE, structure |-> FALSE, symbols |-> FALSE,
     importsLength |-> 0, project |-> FALSE, guidance |-> FALSE,
     userPromptLength |-> 0]

PromptIdle ==
    /\ promptInput = NoPromptInput
    /\ promptOutput = <<>>
    /\ ppc = "idle"

PromptInit ==
    /\ promptInput \in PromptInputs
    /\ promptOutput = <<>>
    /\ ppc = "input"

(* the provider asks the builder for the prompt *)
BuildPrompt ==
    /\ ppc = "input"
    /\ promptOutput' = buildPrompt(promptInput)
    /\ ppc' = "done"
    /\ UNCHANGED promptInput
    /\ UNCHANGED <<provVars, ctxVars>>


ProviderStarts(invocations) ==
    /\ now = StartTime
    /\ timers = {}
    /\ pendingRequest = FALSE
    /\ pendingRequestTimeout = 0
    /\ lastRequestTime = 0
    /\ lastCall = 0
    /\ userPrompt = 0
    /\ promptsSet = 0
    /\ smallTicks = 0
    /\ req = [r \in 1..invocations |-> InitReq]
    /\ command = NoCommand

ProvInit == ProviderStarts(MaxRequests)

(* Three invocations, the second of which waits for the first *)
MaxThrottleRequests == 3

ThrottleInit == ProviderStarts(MaxThrottleRequests)

(* The provider driven by the editor's own invocations *)
Next ==
    \/ \E r \in Requests : Invoke(r)
    \/ \E r \in Requests : DelayDone(r)
    \/ \E r \in Requests : LLMReturn(r)
    \/ \E r \in Requests : LLMFail(r)
    \/ \E r \in Requests : BackoffDone(r)
    \/ \E r \in Requests : Cancel(r)
    \/ TimeoutFire
    \/ TickToDeadline
    \/ Tick

(* The provider together with the trigger command's user prompt *)
NextTrigger ==
    \/ Next
    \/ triggerCompletionCommand
    \/ \E r \in Requests : CommandInvoke(r)
    \/ setUserPrompt
    \/ UserPromptExpire

vars == <<provVars, ctxVars, promptVars>>

Init == ProvInit /\ CtxIdle /\ PromptIdle

Spec == Init /\ [][Next]_vars

SpecTrigger == Init /\ [][NextTrigger]_vars

(* The provider invoked three times *)
InitThrottle == ThrottleInit /\ CtxIdle /\ PromptIdle

NextThrottle ==
    \/ Next
    \/ ShortTick

SpecThrottle == InitThrottle /\ [][NextThrottle]_vars

(* The context analyzer applied to a document and a cursor *)
InitContext == ProvInit /\ CtxInit /\ PromptIdle

NextContext == GetContext

SpecContext == InitContext /\ [][NextContext]_vars

(* The enhanced analysis applied to documents of nested blocks *)
InitAnalysis == ProvInit /\ AnalysisInit /\ PromptIdle

NextAnalysis == GetContext

SpecAnalysis == InitAnalysis /\ [][NextAnalysis]_vars

(* The symbol and import analysis applied to documents with imports *)
InitSymbols == ProvInit /\ SymbolInit /\ PromptIdle

NextSymbols == GetContext

SpecSymbols == InitSymbols /\ [][NextSymbols]_vars

(* The indentation analysis under the settings of the editor *)
InitEditor == ProvInit /\ EditorInit /\ PromptIdle

NextEditor == GetContext

SpecEditor == InitEditor /\ [][NextEditor]_vars

(* The context analyzer with a sub-analysis that throws *)
InitFaults == ProvInit /\ FaultInit /\ PromptIdle

NextFaults == GetContext

SpecFaults == InitFaults /\ [][NextFaults]_vars

(* The prompt builder applied to a context and a configuration *)
(* The scope resolver on its own *)
InitResolver == ProvInit /\ CtxInit /\ PromptIdle

NextResolver == ResolveScope

SpecResolver == InitResolver /\ [][NextResolver]_vars

(* getContext called again on the document of its first call, with calls  *)
(* for documents of other languages in between                             *)
InitCache == ProvInit /\ CacheInit /\ PromptIdle

NextCache == GetContext \/ OpenOther \/ Reopen

SpecCache == InitCache /\ [][NextCache]_vars

InitPrompt == ProvInit /\ CtxIdle /\ PromptInit

NextPrompt == BuildPrompt

SpecPrompt == InitPrompt /\ [][NextPrompt]_vars

(* ---------------------------------------------------------------------- *)
(* Properties of the context analyzer                                      *)
(* ---------------------------------------------------------------------- *)

(* the texts of a context in reading order, the empty ones left out *)
ContextParts(c) ==
    SelectSeq(<<c.beforeCode, c.beforeCursor, c.afterCursor, c.afterCode>>,
              LAMBDA t : TextLen(t) > 0)

(* each text starts in the document where the text before it stopped *)
Contiguous(c) ==
    \A i \in 1..(Len(ContextParts(c)) - 1) :
        /\ ContextParts(c)[i].nl = 0
        /\ ContextParts(c)[i].to = ContextParts(c)[i + 1].from

(* C1: in every branch of getContext, beforeCode, beforeCursor,            *)
(* afterCursor and afterCode put together are one contiguous slice of the  *)
(* document: no gap, and the cursor's line is there exactly once.          *)
C1_ContextIsContiguousSlice ==
    cpc = "done" => Contiguous(contextInfo)

(* C2: for a non-empty document, getContext never returns a beforeCode and *)
(* an afterCode that are both empty.                                       *)
C2_ContextNeverEmpty ==
    (cpc = "done" /\ TextLength(document) > 0)
        => ~(/\ TextLen(contextInfo.beforeCode) = 0
             /\ TextLen(contextInfo.afterCode) = 0)

(* C13: in a JavaScript/TypeScript document the range                     *)
(* getCurrentFunctionOrClassRange returns never starts at a line that      *)
(* matches a control-flow pattern, also when that line matches a           *)
(* declaration pattern as well.                                            *)
C13_ScopeNeverStartsAtControlFlow ==
    ( /\ cpc = "done"
      /\ languageId \in BraceLanguages
      /\ contextInfo.range.ok )
    => ~LineKind(lineAt(document, contextInfo.range.start.line).kind)
           .isControlFlow

(* the block of a line that matches both kinds of pattern holds the cursor *)
C13_Witness ==
    /\ cpc = "done"
    /\ languageId \in BraceLanguages
    /\ \E n \in 0..cursorPosition.line :
          /\ LineKind(lineAt(document, n).kind).isControlFlow
          /\ LineKind(lineAt(document, n).kind).isFunction
          /\ getFunctionRangeByLine(document, n).ok
          /\ positionInRange(cursorPosition,
                             getFunctionRangeByLine(document, n))

(* the keywords that open a control-flow block *)
ControlFlowKeywords == {"if", "for", "while", "switch", "try", "catch", "do"}

(* C14: the scope description of a context never names a control-flow    *)
(* keyword as the enclosing function or block                            *)
C14_ScopeNeverNamesControlFlow ==
    cpc = "done" => contextInfo.currentScope.name \notin ControlFlowKeywords

(* the declarations whose brace block holds the cursor: the cursor is     *)
(* after the opening brace and before the closing one                     *)
EnclosingDeclarations(doc, position) ==
    {n \in 0..position.line :
        /\ lineAt(doc, n).kind \in {"fn", "arrowfn"}
        /\ getFunctionRangeByLine(doc, n).ok
        /\ offsetAt(doc, position) > OpenBracePos(doc, n)
        /\ offsetAt(doc, position)
              < offsetAt(doc, getFunctionRangeByLine(doc, n).end) - 1}

DeclaredName(k) == IF k = "arrowfn" THEN "g" ELSE "f"

(* C15: with the cursor inside nested named functions, the scope          *)
(* description names the innermost one                                    *)
C15_InnermostFunctionNamed ==
    (/\ cpc = "done"
     /\ languageId \in BraceLanguages
     /\ Cardinality(EnclosingDeclarations(document, cursorPosition)) >= 2)
    => LET enclosing == EnclosingDeclarations(document, cursorPosition)
           innermost == CHOOSE n \in enclosing : \A m \in enclosing : m <= n
       IN  contextInfo.currentScope
             = FunctionScope(DeclaredName(lineAt(document, innermost).kind))

(* C16: the code structure of a context is ordered by position: no entry *)
(* is at a smaller position than the entry before it                      *)
C16_CodeStructureInPositionOrder ==
    cpc = "done" =>
        \A i \in 1..(Len(contextInfo.codeStructure) - 1) :
            contextInfo.codeStructure[i].position
              <= contextInfo.codeStructure[i + 1].position

(* an arrow function, found by a later pattern than a function below it,  *)
(* is listed before that function                                         *)
C16_Witness ==
    /\ cpc = "done"
    /\ \E i, j \in 1..Len(contextInfo.codeStructure) :
          /\ i < j
          /\ contextInfo.codeStructure[i].type = "arrow-function"
          /\ contextInfo.codeStructure[j].type = "function"
          /\ contextInfo.codeStructure[i].position
                < contextInfo.codeStructure[j].position

C18_ImportsBindNearbySymbols ==
    cpc = "done" =>
        \A i \in 1..Len(contextInfo.relatedImports) :
            \E name \in contextInfo.relatedImports[i].names :
                HasPlainSymbol(contextInfo.symbolInfo, name)

(* C19: with more opening than closing brackets in beforeCursor, the      *)
(* expected indentation is the indentation and one indent unit            *)
C19_MoreOpenBracketsIndent ==
    (/\ cpc = "done"
     /\ BracketsBefore(document, cursorPosition, TRUE)
           > BracketsBefore(document, cursorPosition, FALSE))
    => contextInfo.expectedIndentation
         = OneLevelDeeper(contextInfo.indentation, editorConfig)

(* the context getContext returns when nothing throws *)
UndisturbedContext ==
    getContext(document, languageId, cursorPosition, contextLineCount,
               editorConfig, "none")

(* C20: when one sub-analysis throws, getContext returns a context with   *)
(* the default in the field of that analysis and with every other field   *)
(* as it is when nothing throws                                           *)
C20_ThrowDefaultsOnlyItsField ==
    (/\ cpc \in {"done", "thrown"}
     /\ throwing # "none"
     /\ ~NeverReturns(document, languageId, cursorPosition,
                      contextLineCount, "none"))
    => /\ cpc = "done"
       /\ throwing = "symbols" => contextInfo.symbolInfo = {}
       /\ throwing = "structure" => contextInfo.codeStructure = <<>>
       /\ throwing = "scope"
             => contextInfo.currentScope \in {NoScope, GlobalScope}
       /\ throwing = "imports" => contextInfo.relatedImports = <<>>
       /\ throwing # "symbols"
             => contextInfo.symbolInfo = UndisturbedContext.symbolInfo
       /\ throwing # "structure"
             => contextInfo.codeStructure = UndisturbedContext.codeStructure
       /\ throwing # "scope"
             => contextInfo.currentScope = UndisturbedContext.currentScope
       /\ throwing # "imports"
             => contextInfo.relatedImports = UndisturbedContext.relatedImports
       /\ throwing # "indentation"
             => contextInfo.expectedIndentation
                  = UndisturbedContext.expectedIndentation

(* ---------------------------------------------------------------------- *)
(* Properties of the prompt builder                                        *)
(* ---------------------------------------------------------------------- *)

(* the critical set of a prompt: system instructions, code-context        *)
(* section, user request, trailing instructions                            *)
CriticalSet(in) ==
    IF in.template = "none"
    THEN <<buildSystemPrompt(in.mode),
           CodeContextHeader \o NL \o buildCodeContextInfo(in),
           buildUserPrompt(in),
           ProvideInstruction(in.mode) \o NL \o ImportantInstruction>>
    ELSE <<buildCodeContextInfo(in),
           PromptText(in),
           ProvideInstruction(in.mode) \o NL \o ImportantInstruction>>

(* the critical set alone is within the budget *)
CriticalSetFits(in) ==
    Length(Join(CriticalSet(in), BlankLine))
        <= in.maxPromptTokens * CharsPerToken

(* text p is in text t in full *)
Contains(t, p) ==
    \E i \in 1..(Len(t) - Len(p) + 1) : SubSeq(t, i, i + Len(p) - 1) = p

(* C9: unless the critical set alone exceeds the budget, the text          *)
(* buildPrompt returns, in the default and in the template format, has an  *)
(* estimated size length/4 of at most maxPromptTokens.                     *)
C9_PromptWithinBudget ==
    (ppc = "done" /\ CriticalSetFits(promptInput))
        => Length(promptOutput) <= promptInput.maxPromptTokens * CharsPerToken

(* C10: a default-format prompt that is over budget while its critical set *)
(* fits still holds, after truncation, the system instructions, the        *)
(* code-context section, the user request and the trailing instructions in *)
(* full.                                                                   *)
C10_CriticalSetKept ==
    ( /\ ppc = "done"
      /\ promptInput.template = "none"
      /\ Length(AssembledPrompt(promptInput))
            > promptInput.maxPromptTokens * CharsPerToken
      /\ CriticalSetFits(promptInput) )
    => \A i \in 1..Len(CriticalSet(promptInput)) :
           Contains(promptOutput, CriticalSet(promptInput)[i])

(* the optional sections of a default-format prompt *)
OptionalSections(in) ==
    DefaultEnhancedParts(in)
      \o FilterNonEmpty(<<buildProjectInfo(in), buildLanguageGuidance(in)>>)

(* the code-context section of a default-format prompt *)
CodeContextSection(in) ==
    CodeContextHeader \o NL \o buildCodeContextInfo(in)

(* system instructions and code context alone are over the budget *)
SystemAndCodeOverBudget(in) ==
    Length(buildSystemPrompt(in.mode)) + Length(CodeContextSection(in))
        > in.maxPromptTokens * CharsPerToken

(* the places of text p in text t *)
Places(t, p) ==
    {i \in 1..(Len(t) - Len(p) + 1) : SubSeq(t, i, i + Len(p) - 1) = p}

(* text t is a beginning of system instructions and a beginning of the    *)
(* code-context section, with the notice between them and the closing     *)
(* notice after them, the two cut to sizes in the ratio of their sizes     *)
CutInProportion(t, in) ==
    LET system == buildSystemPrompt(in.mode) \o NL
        code == CodeContextSection(in) \o NL
    IN  \E i \in Places(t, CodeTruncatedNotice) :
          LET j == Len(t) - Len(VisibleContextNotice)
              systemPart == SubSeq(t, 1, i - 1)
              codePart == SubSeq(t, i + Len(CodeTruncatedNotice), j)
              a == Length(systemPart)
              b == Length(codePart)
              d == a * Length(code) - b * Length(system)
          IN  /\ i + Len(CodeTruncatedNotice) <= j + 1
              /\ SubSeq(t, j + 1, Len(t)) = VisibleContextNotice
              /\ systemPart = Take(system, a)
              /\ codePart = Take(code, b)
              /\ d <= Length(system) + Length(code)
              /\ -d <= Length(system) + Length(code)

(* C11: when the system instructions and the code-context section of a     *)
(* default-format prompt alone exceed maxPromptTokens, the text            *)
(* buildPrompt returns holds a truncation notice, holds the system         *)
(* instructions and the code context cut in proportion to their sizes,     *)
(* and holds no optional section in full.                                  *)
C11_CriticalOverflowDegrades ==
    ( /\ ppc = "done"
      /\ promptInput.template = "none"
      /\ SystemAndCodeOverBudget(promptInput) )
    => /\ \/ Places(promptOutput, VisibleContextNotice) # {}
          \/ Places(promptOutput, EnhancedOmittedNotice) # {}
       /\ CutInProportion(promptOutput, promptInput)
       /\ \A i \in 1..Len(OptionalSections(promptInput)) :
              ~Contains(promptOutput, OptionalSections(promptInput)[i])

(* the optional sections of a template prompt in the order of the text,   *)
(* an absent one empty, and the priority class of each                     *)
TemplateSections(in) ==
    <<buildCodeStructureInfo(in), buildSyntaxContextInfo(in),
      buildScopeInfo(in), buildImportsInfo(in), buildSymbolsInfo(in),
      buildIndentationInfo(in), buildProjectInfo(in)>>

PriorityClass == <<3, 2, 2, 3, 1, 1, 3>>

(* section i is tried before section j *)
TriedBefore(i, j) ==
    \/ PriorityClass[i] < PriorityClass[j]
    \/ PriorityClass[i] = PriorityClass[j] /\ i < j

(* the sections of the prompt that the text t holds in full *)
KeptSections(t, in) ==
    {i \in 1..Len(TemplateSections(in)) :
        /\ TemplateSections(in)[i] # <<>>
        /\ Contains(t, TemplateSections(in)[i])}

DroppedSections(t, in) ==
    {i \in 1..Len(TemplateSections(in)) :
        /\ TemplateSections(in)[i] # <<>>
        /\ ~Contains(t, TemplateSections(in)[i])}

(* truncation kept some optional sections of the prompt and dropped others *)
KeptOnlySome(t, in) ==
    /\ Length(AssembledPrompt(in)) > in.maxPromptTokens * CharsPerToken
    /\ KeptSections(t, in) # {}
    /\ DroppedSections(t, in) # {}

(* a section is kept only if every section tried before it is kept, and   *)
(* the first section dropped did not fit into 98% of the budget next to    *)
(* what is kept                                                            *)
PriorityPrefix(t, in) ==
    /\ \A j \in KeptSections(t, in) :
          \A i \in DroppedSections(t, in) : ~TriedBefore(i, j)
    /\ \A i \in DroppedSections(t, in) :
          (\A k \in DroppedSections(t, in) : k = i \/ TriedBefore(i, k))
          => ~FitsBudget(Length(t) + Length(TemplateSections(in)[i]),
                         in.maxPromptTokens)

Outstanding(r) == req[r].pc \in {"llm", "backoff"}

(* C3: at most one request is outstanding at any time. *)
C3_OneOutstanding ==
    Cardinality({r \in Requests : Outstanding(r)}) <= 1

(* C4: when the LLM call of a request has not returned and more than       *)
(* REQUEST_TIMEOUT has passed since the request started, pendingRequest is *)
(* false unless a later request has set it again; also after other         *)
(* invocations were refused in between.                                    *)
C4_TimeoutFreesProvider ==
    \A r \in Requests :
        ( /\ req[r].pc = "llm"
          /\ now > req[r].start + REQUEST_TIMEOUT
          /\ \A q \in Requests \ {r} : ~Outstanding(q) )
        => ~pendingRequest

(* C5: a request whose timeout has fired never returns completion items,   *)
(* and when it completes it leaves the pending flag and the timer of       *)
(* another outstanding request alone.                                      *)
C5_TimedOutRequestIsIgnored ==
    [][ /\ \A r \in Requests :
             req'[r].timedOut => req'[r].result # "items"
        /\ \A r \in Requests :
             ( /\ req[r].timedOut
               /\ req[r].pc # "done"
               /\ req'[r].pc = "done"
               /\ \E q \in Requests \ {r} : Outstanding(q) )
             => (pendingRequest' = pendingRequest /\ timers' = timers)
      ]_vars

(* C6: getCompletion is never invoked with a token that is already         *)
(* cancelled, and a request whose token was cancelled while its LLM call   *)
(* was in flight yields no completion items.                               *)
C6_CancellationChecked ==
    \A r \in Requests :
        /\ ~req[r].calledCancelled
        /\ (req[r].cancelInFlight /\ req[r].pc = "done")
              => req[r].result = "null"

C6_Witness ==
    \E r \in Requests :
        req[r].pc = "done" /\ req[r].cancelInFlight /\ req[r].result = "null"

(* C7: a request that ends with its token cancelled (the connector raises  *)
(* its cancellation error on any attempt, also after a back-off) shows no  *)
(* error to the user and returns null.                                     *)
C7_CancellationIsSilent ==
    \A r \in Requests :
        (req[r].pc = "done" /\ req[r].tok)
            => (~req[r].shown /\ req[r].result = "null")

(* a request cancelled during a retry back-off that has ended *)
C7_Witness ==
    \E r \in Requests :
        /\ req[r].pc = "done"
        /\ req[r].tok
        /\ req[r].ctxBuilt
        /\ ~req[r].cancelInFlight

(* C8: a request not started by the manual trigger in which building the   *)
(* context or the prompt fails returns null and shows no error.            *)
C8_BuildFailureIsSilent ==
    \A r \in Requests :
        (req[r].pc = "done" /\ req[r].failed # "none" /\ ~req[r].manual)
            => (~req[r].shown /\ req[r].result = "null")

(* C23: a request started by the trigger command, once it has built its   *)
(* prompt, has built it with the text the user entered in that command,    *)
(* whichever of the provider's invocation and setUserPrompt comes first.   *)
C23_CommandPromptUsed ==
    \A r \in Requests :
        (req[r].commanded > 0 /\ req[r].prompt # <<>>)
            => req[r].prompt = << req[r].commanded >>

(* C27: the text of a setUserPrompt call is in the prompt of at most one   *)
(* request.                                                                *)
C27_UserPromptUsedOnce ==
    \A r, q \in Requests :
        (r # q /\ req[r].prompt # <<>> /\ req[r].prompt # << 0 >>)
            => req[q].prompt # req[r].prompt

(* C26: two invocations that pass the debounce check are at least          *)
(* REQUEST_DEBOUNCE_TIME apart, so that no two requests call the provider  *)
(* for the first time within REQUEST_DEBOUNCE_TIME of each other; and an   *)
(* invocation that arrives sooner returns null and leaves lastRequestTime, *)
(* pendingRequest and the timers as they are.                              *)
C26_RequestsDebounced ==
    [][ /\ \A r \in Requests :
             (req[r].attempts = 0 /\ req'[r].attempts > 0 /\ lastCall > 0)
                 => lastCall' - lastCall >= REQUEST_DEBOUNCE_TIME
        /\ \A r \in Requests :
             ( /\ req[r].pc = "idle"
               /\ req'[r].pc # "idle"
               /\ now - lastRequestTime < REQUEST_DEBOUNCE_TIME )
             => /\ req'[r].pc = "done"
                /\ req'[r].result = "null"
                /\ lastRequestTime' = lastRequestTime
                /\ pendingRequest' = pendingRequest
                /\ timers' = timers
      ]_vars

(* C28: while fewer than MAX_RETRIES retries have been made and the token  *)
(* is not cancelled, a server error (5xx) or a network timeout of the      *)
(* provider call, as the call of any provider hands it to getCompletion,   *)
(* makes getCompletion wait for the back-off and try again.                *)
RetryableErrors == {Err5xx, ErrNet}

C28_ServerErrorsRetried ==
    \A r \in Requests :
        (req[r].pc = "llm" /\ ~req[r].tok /\ req[r].retryCount < MAX_RETRIES)
            => \A provider \in Providers : \A e \in RetryableErrors :
                   ConnectorCatch(Snapshot(r),
                       WrapProviderError(provider, e, req[r].tok),
                       now).q.pc = "backoff"

C30_RefusalLeavesRequestAlone ==
    [][ \A r \in Requests :
            (~req[r].refusedBusy /\ req'[r].refusedBusy)
                => \A q \in Requests :
                       (Outstanding(q) /\ ~req'[q].timedOut)
                           => /\ pendingRequest'
                              /\ \E t \in timers' :
                                     t.kind = "timeout" /\ t.owner = q
      ]_vars

(* vscode.Range.contains(position): the position is not before the start  *)
(* of the range and not after its end                                      *)
Encloses(range, p) ==
    /\ \/ range.start.line < p.line
       \/ (range.start.line = p.line /\ range.start.character <= p.character)
    /\ \/ p.line < range.end.line
       \/ (p.line = range.end.line /\ p.character <= range.end.character)

(* the lines of the lookback window that were recorded as declarations and *)
(* whose range holds the position                                          *)
EnclosingCandidates(doc, position) ==
    {n \in Max(0, position.line - (MaxLookupLinesJs - 1))..position.line :
        /\ IsFunctionLine(lineAt(doc, n))
        /\ getFunctionRangeByLine(doc, n).ok
        /\ Encloses(getFunctionRangeByLine(doc, n), position)}

LowestOf(lines) == CHOOSE n \in lines : \A m \in lines : n <= m

RangeOfLowest(doc, enclosing) ==
    IF enclosing = {} THEN NullRange
    ELSE getFunctionRangeByLine(doc, LowestOf(enclosing))

C25_RangeHoldsCursor ==
    (cpc \in {"done", "resolved"} /\ contextInfo.range.ok)
        => /\ Encloses(contextInfo.range, cursorPosition)
           /\ contextInfo.range.start.line >= 0
           /\ contextInfo.range.start.line <= contextInfo.range.end.line
           /\ contextInfo.range.end.line < Len(document)

(* a Python definition found above the cursor, with a line after the       *)
(* cursor that is not part of it                                           *)
C25_Witness ==
    /\ cpc = "resolved"
    /\ languageId = "python"
    /\ contextInfo.range.ok
    /\ contextInfo.range.start.line < cursorPosition.line
    /\ contextInfo.range.end.line < Len(document) - 1

(* afterCode of the short-prefix branch when no scope range bounds it: the *)
(* text from the cursor to the end of the line lineCount lines below       *)
WindowAfterCursor(doc, position, endLine) ==
    getText(doc, position,
            Position(endLine, LineLength(lineAt(doc, endLine))))

FixedWindowAfterCursor(doc, position, lineCount) ==
    WindowAfterCursor(doc, position,
                      Min(Len(doc) - 1, position.line + lineCount))

(* C22: when the text taken from the scope range is empty or blank, the    *)
(* context holds the fixed-window texts instead: in the short-prefix       *)
(* branch, where the end of the scope bounds afterCode, and in the         *)
(* large-document branch, where the scope bounds both texts.               *)
C22_BlankScopeFallsBack ==
    cpc = "done" =>
        /\ ( /\ contextInfo.branch = "prefix"
             /\ contextInfo.usedFunctionContext
             /\ getText(document, cursorPosition, contextInfo.range.end)
                    = EmptyText )
           => contextInfo.afterCode =
                  FixedWindowAfterCursor(document, cursorPosition,
                      EffectiveLineCount(contextLineCount))
        /\ ( /\ contextInfo.branch = "large"
             /\ contextInfo.usedFunctionContext
             /\ \/ LinesBlank(document, contextInfo.range.start.line,
                               cursorPosition.line - 1)
                \/ LinesBlank(document, cursorPosition.line + 1,
                               contextInfo.range.end.line) )
           => /\ contextInfo.beforeCode =
                     LinesText(document,
                         Max(0, cursorPosition.line
                                  - EffectiveLineCount(contextLineCount)),
                         cursorPosition.line - 1)
              /\ contextInfo.afterCode =
                     LinesText(document, cursorPosition.line + 1,
                         Min(Len(document) - 1,
                             cursorPosition.line
                               + EffectiveLineCount(contextLineCount)))

(* C21: getContext called again on the document and the cursor of its      *)
(* first call ends as the first call did and returns a ContextInfo with    *)
(* the same value in every field, whatever analyzers the calls in between  *)
(* have left in languageAnalyzers.                                         *)
C21_RepeatedCallSameContext ==
    (earlier.stage = "again" /\ cpc # "input")
        => /\ cpc = earlier.outcome
           /\ contextInfo = earlier.info

(* the second call for a document found the analyzers of its own and of    *)
(* another language cached, and the analyzer of the language took part in  *)
(* the result                                                              *)
C21_Witness ==
    /\ earlier.stage = "again"
    /\ cpc = "done"
    /\ Cardinality({l \in AllLanguages : languageAnalyzers[l] # "none"}) >= 2
    /\ contextInfo.currentScope.type = "function"
    /\ contextInfo.relatedImports # <<>>

====
